---- MODULE Spec2Model ----
(***************************************************************************)
(* Calcu-rs equality-saturation engine: the saturation driver (Runner) and *)
(* its rule schedulers (SimpleScheduler, BackoffScheduler), modelled from  *)
(* src/src/egraph/run.rs.                                                  *)
(*                                                                         *)
(* Runner::run is one run-to-completion call.  It is modelled as a         *)
(* sequential process whose position (pc) moves through the statements of  *)
(* run and run_one; one action per phase step (one hook call, one rule     *)
(* search, one rule apply, the rebuild, the saturation test, the push of   *)
(* the Iteration with the stop test of the loop).                          *)
(*                                                                         *)
(* The e-graph itself (EGraph, Rewrite, the matching machine) is not part  *)
(* of the modelled files.  The runner only reads its two size measures     *)
(* (total_size, number_of_classes) and changes it through hooks, appliers  *)
(* and rebuild, so the graph is kept as these two counters plus a dirty    *)
(* flag, and the effects of hooks, searches, appliers and rebuild are      *)
(* chosen nondeterministically from the outcomes the engine description    *)
(* allows for the rule's kind.                                             *)
(***************************************************************************)
EXTENDS Integers, Sequences, FiniteSets, TLC

(***************************************************************************)
(* Bounds of the exploration.                                              *)
(***************************************************************************)
MaxIterLimit == 2
MaxHooks == 2
MaxRules == 2
MaxMatches == 2
MaxInitNodes == 2
\* Width of usize in bits, scaled down so that the shifts of the
\* BackoffScheduler reach it.
UsizeBits == 3

(***************************************************************************)
(* Program constants and the values explored for the configuration.        *)
(***************************************************************************)
DefaultIterLimit == 30
NodeLimits == {2, 5}
MatchLimits == {1}
BanLengths == {2}
RuleKinds == {"none", "merge", "grow"}

Min(a, b) == IF a < b THEN a ELSE b
Max(a, b) == IF a > b THEN a ELSE b

\* usize::MAX
UsizeMax == 2 ^ UsizeBits - 1

(***************************************************************************)
(* StopReason and RunnerResult<()>.  Every value carries the same fields so *)
(* that values of different variants can be compared.                      *)
(***************************************************************************)
None == [kind |-> "None", data |-> 0, msg |-> ""]
Ok == [kind |-> "Ok", data |-> 0, msg |-> ""]
Saturated == [kind |-> "Saturated", data |-> 0, msg |-> ""]
IterationLimit(n) == [kind |-> "IterationLimit", data |-> n, msg |-> ""]
NodeLimit(n) == [kind |-> "NodeLimit", data |-> n, msg |-> ""]
TimeLimit == [kind |-> "TimeLimit", data |-> 0, msg |-> ""]
Other(m) == [kind |-> "Other", data |-> 0, msg |-> m]

\* Result::and_then as used in run_one: the phase runs only when the
\* result so far is Ok.
\* A result taken for Ok whatever it is.
IsOk_Always(res) == TRUE

IsOk(res) == res.kind = "Ok"

ResultAnd_LastWins(res, err) == err

\* Result::and: an earlier error wins over the later one.
ResultAnd(res, err) == IF IsOk(res) THEN err ELSE res

\* The limit check made after the round winning over the Iteration's stop
\* reason.
OrElse_LimitsFirst(opt, res) == IF IsOk(res) THEN opt ELSE res

\* Option::or_else in Runner::run: the Iteration's stop reason wins over the
\* limit check made after the round.
OrElse(opt, res) == IF opt.kind # "None" THEN opt ELSE IF IsOk(res) THEN None ELSE res

VARIABLES
    iter_limit, node_limit, hooks, rules, scheduler,   \* configuration
    default_match_limit, default_ban_length,           \* BackoffScheduler configuration
    stats,                                             \* BackoffScheduler.stats
    egraph,                                            \* Runner.egraph (sizes)
    iterations, stop_reason,                           \* Runner.iterations, Runner.stop_reason
    elapsed_over,                                      \* start_time.elapsed() > time_limit was observed
    pc,                                                \* position in run / run_one
    result, egraph_nodes, egraph_classes,              \* locals of run_one
    egraph_nodes_after_hooks, egraph_classes_after_hooks,
    matches, applied, h, a,
    log,                                               \* history: events of the current round
    ban_log,                                           \* history: last ban of every rule
    cs,                                                \* history: the can_stop call of the round
    sc,                                                \* the caller of a scheduler used on its own
    eg,                                                \* an e-graph used on its own and its caller
    ex,                                                \* an extractor used on its own and its caller
    fcall                                              \* the last call of a function used on its own

cfgvars == <<iter_limit, node_limit, hooks, rules, scheduler,
             default_match_limit, default_ban_length>>
locvars == <<result, egraph_nodes, egraph_classes, egraph_nodes_after_hooks,
             egraph_classes_after_hooks, matches, applied, h, a>>
vars == <<iter_limit, node_limit, hooks, rules, scheduler,
          default_match_limit, default_ban_length, stats, egraph,
          iterations, stop_reason, elapsed_over, pc, result, egraph_nodes,
          egraph_classes, egraph_nodes_after_hooks, egraph_classes_after_hooks,
          matches, applied, h, a, log, ban_log, cs, sc, eg, ex, fcall>>

\* The variables of the components exercised on their own; a run of the
\* Runner leaves them alone.
auxvars == <<sc, eg, ex, fcall>>

(***************************************************************************)
(* The e-graph as the runner sees it.                                      *)
(***************************************************************************)
total_size(g) == g.nodes
number_of_classes(g) == g.classes

\* EGraph::add of a node that is not in the memo: one more node, one more class.
\* EGraph::union of two distinct classes: one class less, rebuild pending.
GraphAfter(g, added, unions) ==
    [nodes |-> g.nodes + added,
     classes |-> g.classes + added - unions,
     dirty |-> g.dirty \/ unions > 0]

\* EGraph::rebuild: restores congruence; when unions are pending it may merge
\* c further classes.  It leaves the graph clean.
RebuildGraph(g, c) == [nodes |-> g.nodes, classes |-> g.classes - c, dirty |-> FALSE]

RebuildChoices(g) == IF g.dirty /\ g.classes > 1 THEN {0, 1} ELSE {0}

\* Number of substitutions a full search of a rule of the given kind finds:
\*   "none"  a rule that matches nothing;
\*   "merge" a rule whose right-hand side is already in the graph: an applied
\*           match unions two existing classes or finds them equal already;
\*   "grow"  a rule that fires in every round and adds a new node with every
\*           applied match (unioned with the matched class, or, for an
\*           applier that only inserts, left in a class of its own).
SearchCounts(kind) ==
    CASE kind = "none" -> {0}
      [] kind = "grow" -> 1..MaxMatches
      [] OTHER -> 0..MaxMatches

\* Searcher::search_with_limit: the limit bounds the returned substitutions.
search_with_limit(found, limit) == Min(found, limit)

\* Rewrite::apply on k substitutions: the nodes it adds and the unions that
\* merged two distinct classes (the length of the returned id list).
ApplyEffects(kind, k, g) ==
    CASE kind = "none" -> {[added |-> 0, unions |-> 0]}
      [] kind = "grow" -> {[added |-> k, unions |-> u] : u \in {0, k}}
      [] OTHER -> {[added |-> 0, unions |-> u] : u \in 0..Min(k, g.classes - 1)}

check_limits_NodeGeq(elapsed, g, n_iterations, nl, il) ==
    IF elapsed THEN [kind |-> "TimeLimit", data |-> 0, msg |-> ""]
    ELSE IF g.nodes >= nl THEN [kind |-> "NodeLimit", data |-> g.nodes, msg |-> ""]
    ELSE IF n_iterations >= il
         THEN [kind |-> "IterationLimit", data |-> n_iterations, msg |-> ""]
    ELSE [kind |-> "Ok", data |-> 0, msg |-> ""]

check_limits_IterGt(elapsed, g, n_iterations, nl, il) ==
    IF elapsed THEN [kind |-> "TimeLimit", data |-> 0, msg |-> ""]
    ELSE IF g.nodes > nl THEN [kind |-> "NodeLimit", data |-> g.nodes, msg |-> ""]
    ELSE IF n_iterations > il
         THEN [kind |-> "IterationLimit", data |-> n_iterations, msg |-> ""]
    ELSE [kind |-> "Ok", data |-> 0, msg |-> ""]

\* A check that looks at the graph's size before the elapsed time.
check_limits_NodeFirst(elapsed, g, n_iterations, nl, il) ==
    IF g.nodes > nl THEN [kind |-> "NodeLimit", data |-> g.nodes, msg |-> ""]
    ELSE IF elapsed THEN [kind |-> "TimeLimit", data |-> 0, msg |-> ""]
    ELSE IF n_iterations >= il
         THEN [kind |-> "IterationLimit", data |-> n_iterations, msg |-> ""]
    ELSE [kind |-> "Ok", data |-> 0, msg |-> ""]

(***************************************************************************)
(* Runner::check_limits.  elapsed is whether the elapsed time is over the  *)
(* time limit at this poll.                                                *)
(***************************************************************************)
check_limits(elapsed, g, n_iterations, nl, il) ==
    IF elapsed THEN TimeLimit
    ELSE IF total_size(g) > nl THEN NodeLimit(total_size(g))
    ELSE IF n_iterations >= il THEN IterationLimit(n_iterations)
    ELSE Ok

(***************************************************************************)
(* BackoffScheduler.                                                       *)
(***************************************************************************)
\* BackoffScheduler::rule_stats: the entry a rule gets on first use.
NewRuleStats(ml, bl) ==
    [times_applied |-> 0, banned_until |-> 0, times_banned |-> 0,
     match_limit |-> ml, ban_length |-> bl]

Pow2(k) == 2 ^ k

\* x << k on usize: the bits shifted beyond the width are lost.
Shl(x, k) == (x * Pow2(k)) % Pow2(UsizeBits)

\* usize::checked_shl: None exactly when the shift count reaches the width.
checked_shl_is_none(k) == k >= UsizeBits

\* usize::saturating_add
saturating_add(x, y) == Min(x + y, UsizeMax)

Banned(st, iteration) == {r \in DOMAIN st : st[r].banned_until > iteration}

MinBan(st, banned) ==
    CHOOSE m \in {st[r].banned_until : r \in banned} :
        \A r \in banned : m <= st[r].banned_until

BackoffCanStop_StopsAnyway(st, iteration) ==
    LET banned == Banned(st, iteration) IN
    IF banned = {} THEN [ok |-> TRUE, stats |-> st]
    ELSE LET delta == MinBan(st, banned) - iteration IN
         [ok |-> TRUE,
          stats |-> [r \in DOMAIN st |->
                        IF r \in banned
                        THEN [st[r] EXCEPT !.banned_until = @ - delta]
                        ELSE st[r]]]

BackoffCanStop_Countdown(st, iteration) ==
    LET banned == Banned(st, iteration) IN
    IF banned = {} THEN [ok |-> TRUE, stats |-> st]
    ELSE [ok |-> FALSE,
          stats |-> [r \in DOMAIN st |->
                        IF r \in banned
                        THEN [st[r] EXCEPT !.banned_until = @ - 1]
                        ELSE st[r]]]

\* BackoffScheduler::can_stop: the returned flag and the statistics after it.
BackoffCanStop(st, iteration) ==
    LET banned == Banned(st, iteration) IN
    IF banned = {} THEN [ok |-> TRUE, stats |-> st]
    ELSE LET delta == MinBan(st, banned) - iteration IN
         [ok |-> FALSE,
          stats |-> [r \in DOMAIN st |->
                        IF r \in banned
                        THEN [st[r] EXCEPT !.banned_until = @ - delta]
                        ELSE st[r]]]

BackoffSearch_LongBan(s, iteration, found) ==
    IF iteration < s.banned_until
    THEN [stats |-> s, total |-> 0, outcome |-> "skipped", ban |-> 0]
    ELSE IF checked_shl_is_none(s.times_banned)
    THEN [stats |-> s, total |-> 0, outcome |-> "panic", ban |-> 0]
    ELSE LET threshold == Shl(s.match_limit, s.times_banned)
             total_len == search_with_limit(found, saturating_add(threshold, 1))
         IN  IF total_len > threshold
             THEN LET ban_length == Shl(s.ban_length, s.times_banned) IN
                  [stats |-> [s EXCEPT !.times_banned = @ + 1,
                                       !.banned_until = iteration + ban_length + 1],
                   total |-> 0, outcome |-> "banned", ban |-> ban_length]
             ELSE [stats |-> [s EXCEPT !.times_applied = @ + 1],
                   total |-> total_len, outcome |-> "matched", ban |-> 0]

BackoffSearch_SearchesWhenBanned(s, iteration, found) ==
    IF checked_shl_is_none(s.times_banned)
    THEN [stats |-> s, total |-> 0, outcome |-> "panic", ban |-> 0]
    ELSE LET threshold == Shl(s.match_limit, s.times_banned)
             total_len == search_with_limit(found, saturating_add(threshold, 1))
         IN  IF total_len > threshold
             THEN LET ban_length == Shl(s.ban_length, s.times_banned) IN
                  [stats |-> [s EXCEPT !.times_banned = @ + 1,
                                       !.banned_until = iteration + ban_length],
                   total |-> 0, outcome |-> "banned", ban |-> ban_length]
             ELSE [stats |-> [s EXCEPT !.times_applied = @ + 1],
                   total |-> total_len, outcome |-> "matched", ban |-> 0]

BackoffSearch_NoSaturatingAdd(s, iteration, found) ==
    IF iteration < s.banned_until
    THEN [stats |-> s, total |-> 0, outcome |-> "skipped", ban |-> 0]
    ELSE IF checked_shl_is_none(s.times_banned)
    THEN [stats |-> s, total |-> 0, outcome |-> "panic", ban |-> 0]
    ELSE LET threshold == Shl(s.match_limit, s.times_banned)
             total_len == search_with_limit(found, (threshold + 1) % Pow2(UsizeBits))
         IN  IF total_len > threshold
             THEN LET ban_length == Shl(s.ban_length, s.times_banned) IN
                  [stats |-> [s EXCEPT !.times_banned = @ + 1,
                                       !.banned_until = iteration + ban_length],
                   total |-> 0, outcome |-> "banned", ban |-> ban_length]
             ELSE [stats |-> [s EXCEPT !.times_applied = @ + 1],
                   total |-> total_len, outcome |-> "matched", ban |-> 0]

\* BackoffScheduler::search_rewrite for one rule: s is the rule's statistics,
\* found the number of substitutions an unlimited search would find.  The
\* outcome is "skipped" (banned, the graph is not searched), "panic" (the
\* unwrap of checked_shl fails), "banned" (the matches are discarded) or
\* "matched".  The round index stays far below the width, so the sum
\* iteration + ban_length is exact.
BackoffSearch(s, iteration, found) ==
    IF iteration < s.banned_until
    THEN [stats |-> s, total |-> 0, outcome |-> "skipped", ban |-> 0]
    ELSE IF checked_shl_is_none(s.times_banned)
    THEN [stats |-> s, total |-> 0, outcome |-> "panic", ban |-> 0]
    ELSE LET threshold == Shl(s.match_limit, s.times_banned)
             total_len == search_with_limit(found, saturating_add(threshold, 1))
         IN  IF total_len > threshold
             THEN LET ban_length == Shl(s.ban_length, s.times_banned) IN
                  [stats |-> [s EXCEPT !.times_banned = @ + 1,
                                       !.banned_until = iteration + ban_length],
                   total |-> 0, outcome |-> "banned", ban |-> ban_length]
             ELSE [stats |-> [s EXCEPT !.times_applied = @ + 1],
                   total |-> total_len, outcome |-> "matched", ban |-> 0]

\* RewriteScheduler::search_rewrite (default, used by SimpleScheduler).
SimpleSearch(s, iteration, found) ==
    [stats |-> s, total |-> found, outcome |-> "matched", ban |-> 0]

search_rewrite(sched, s, iteration, found) ==
    IF sched = "backoff" THEN BackoffSearch(s, iteration, found)
    ELSE SimpleSearch(s, iteration, found)

\* RewriteScheduler::can_stop (default: true).
can_stop(sched, st, iteration) ==
    IF sched = "backoff" THEN BackoffCanStop(st, iteration)
    ELSE [ok |-> TRUE, stats |-> st]

\* A scheduler call as its caller sees it: the method, the rule and the
\* number of substitutions in the graph (search_rewrite), the round index
\* passed, the statistics before the call and what the call returned.
SchedCall(call, rule, found, iteration, pre, out) ==
    [call |-> call, rule |-> rule, found |-> found, iteration |-> iteration,
     pre |-> pre, out |-> out]

NoOut == [total |-> 0, outcome |-> "none", ban |-> 0, ok |-> FALSE]

NoCaller ==
    [iter |-> 0, calls |-> 0, dnb |-> {},
     last |-> SchedCall("none", 0, 0, 0, <<>>, NoOut)]

(***************************************************************************)
(* The equivalence graph (congruence closure).  Its code (EGraph, the      *)
(* union-find, rebuild) is not among the files modelled above; add, find,  *)
(* union and rebuild follow the public contract of the engine description  *)
(* (section 4.1).  Ids are 1, 2, ... here (0, 1, ... in the code).  A node *)
(* is <<operator, operand ids>>; a graph holds the union-find parent of    *)
(* every id, the member nodes of every class (at its canonical id), the    *)
(* hashcons memo (a set of <<node, id>>, one entry per node) and the ids   *)
(* marked dirty by union.                                                  *)
(***************************************************************************)
MaxIds == 4
MaxEgOps == 6
Leaves == {"x", "2"}

ENode(op, ch) == <<op, ch>>
Operands(n) == n[2]

EmptyGraph == [parent |-> <<>>, nodes |-> <<>>, memo |-> {}, dirty |-> {}]

Ids(g) == 1..Len(g.parent)

\* find(id): the canonical representative, by union-find lookup.
RECURSIVE find(_, _)
find(g, i) == IF g.parent[i] = i THEN i ELSE find(g, g.parent[i])

Roots(g) == {i \in Ids(g) : g.parent[i] = i}

\* A node with its operand ids replaced by their canonical representatives.
canonicalize(g, n) ==
    IF Operands(n) = <<>> THEN n
    ELSE ENode(n[1], [k \in 1..Len(Operands(n)) |-> find(g, Operands(n)[k])])

IsCanonical(g, n) == \A k \in 1..Len(Operands(n)) : g.parent[Operands(n)[k]] = Operands(n)[k]

InMemo(g, n) == \E p \in g.memo : p[1] = n
MemoId(g, n) == (CHOOSE p \in g.memo : p[1] = n)[2]
MemoPut(memo, n, i) == {p \in memo : p[1] # n} \cup {<<n, i>>}

\* add(node) -> id: canonicalizes the operand ids and looks the canonical node
\* up in the memo; on a hit the id of the existing class, else a new
\* singleton class.
add(g, n) ==
    LET cn == canonicalize(g, n)
        new == Len(g.parent) + 1
    IN  IF InMemo(g, cn)
        THEN [g |-> g, id |-> find(g, MemoId(g, cn))]
        ELSE [g |-> [g EXCEPT !.parent = Append(@, new),
                              !.nodes = Append(@, {cn}),
                              !.memo = @ \cup {<<cn, new>>}],
              id |-> new]

\* The union that keeps the root of the second class whatever the sizes and
\* marks nothing dirty.
union_NotDirty(g, id1, id2) ==
    LET ra == find(g, id1)
        rb == find(g, id2)
    IN  IF ra = rb THEN [g |-> g, did |-> FALSE]
        ELSE [g |-> [g EXCEPT !.parent[rb] = ra,
                              !.nodes[ra] = @ \cup g.nodes[rb],
                              !.nodes[rb] = {}],
              did |-> TRUE]

\* The union that links the ids given, not their representatives.
union_LinksArguments(g, id1, id2) ==
    LET ra == find(g, id1)
        rb == find(g, id2)
    IN  IF ra = rb THEN [g |-> g, did |-> FALSE]
        ELSE [g |-> [g EXCEPT !.parent[id2] = id1,
                              !.nodes[ra] = @ \cup g.nodes[rb],
                              !.nodes[rb] = {},
                              !.dirty = @ \cup {ra, rb}],
              did |-> TRUE]

\* union(id1, id2) -> bool: merges the two classes (the larger one keeps its
\* representative), marks both dirty for the next rebuild, and tells whether
\* a merge happened (false if the two were one class already).
union(g, id1, id2) ==
    LET fa == find(g, id1)
        fb == find(g, id2)
        swap == Cardinality(g.nodes[fa]) < Cardinality(g.nodes[fb])
        ra == IF swap THEN fb ELSE fa
        rb == IF swap THEN fa ELSE fb
    IN  IF fa = fb THEN [g |-> g, did |-> FALSE]
        ELSE [g |-> [g EXCEPT !.parent[rb] = ra,
                              !.nodes[ra] = @ \cup g.nodes[rb],
                              !.nodes[rb] = {},
                              !.dirty = @ \cup {ra, rb}],
              did |-> TRUE]

\* The member nodes a pass of rebuild repairs: those with a dirty operand.
Touched(g, dirty) ==
    {cn \in UNION {{<<c, n>> : n \in g.nodes[c]} : c \in Roots(g)} :
        \E k \in 1..Len(Operands(cn[2])) : Operands(cn[2])[k] \in dirty}

\* One node of a pass: its operands are recanonicalized, it is re-inserted in
\* the memo, and if the memo holds the canonical node for another class the
\* two classes are unioned.
Repair(g, c, n) ==
    LET r == find(g, c)
        cn == canonicalize(g, n)
        g1 == [g EXCEPT !.nodes[r] = (@ \ {n}) \cup {cn},
                        !.memo = {p \in @ : p[1] # n \/ p[1] = cn}]
        u == IF InMemo(g1, cn) THEN union(g1, MemoId(g1, cn), r)
             ELSE [g |-> g1, did |-> FALSE]
    IN  [g |-> [u.g EXCEPT !.memo = MemoPut(@, cn, find(u.g, r))], did |-> u.did]

RECURSIVE RebuildPass(_, _, _)
RebuildPass(g, todo, unions) ==
    IF todo = {} THEN [g |-> g, unions |-> unions]
    ELSE LET t == CHOOSE x \in todo : TRUE
             r == Repair(g, t[1], t[2])
         IN  RebuildPass(r.g, todo \ {t}, unions + (IF r.did THEN 1 ELSE 0))

\* The rebuild that makes one pass only.
RECURSIVE rebuild_OnePass(_, _, _)
rebuild_OnePass(g, passes, unions) ==
    IF g.dirty = {} THEN [g |-> g, passes |-> passes, unions |-> unions]
    ELSE LET p == RebuildPass([g EXCEPT !.dirty = {}], Touched(g, g.dirty), 0)
         IN  [g |-> [p.g EXCEPT !.dirty = {}], passes |-> passes + 1,
              unions |-> unions + p.unions]

\* rebuild() -> rebuild_count: passes over the nodes with dirty operands are
\* repeated until a pass makes no union; the number of passes is returned.
RECURSIVE rebuild(_, _, _)
rebuild(g, passes, unions) ==
    IF g.dirty = {} THEN [g |-> g, passes |-> passes, unions |-> unions]
    ELSE LET p == RebuildPass([g EXCEPT !.dirty = {}], Touched(g, g.dirty), 0)
         IN  rebuild(p.g, passes + 1, unions + p.unions)

\* An operation on a graph used on its own, as its caller sees it, and the
\* caller before its first operation.
EgCall(op, args, id, did, passes, unions, pre) ==
    [op |-> op, args |-> args, id |-> id, did |-> did, passes |-> passes,
     unions |-> unions, pre |-> pre]

NoCall == EgCall("none", <<>>, 0, FALSE, 0, 0, EmptyGraph)

NoEGraph == [g |-> EmptyGraph, ops |-> 0, prev |-> NoCall, last |-> NoCall]

(***************************************************************************)
(* The cost-based extractor (Extractor, AstSize, Construct::build_recexpr) *)
(* modelled from src/src/egraph/run.rs and src/src/egraph/construct.rs.    *)
(* The extractor borrows a graph and reads it through classes() (the       *)
(* classes, each with its id and its nodes in the order the class keeps    *)
(* them) and canon_id.  Cost is usize, of the width UsizeBits.             *)
(***************************************************************************)
NoneCost == [kind |-> "None", cost |-> 0]
SomeCost(c) == [kind |-> "Some", cost |-> c]

\* egraph.canon_id(id)
canon_id(g, id) == find(g, id)

\* AstSize::cost without saturation: the sum wraps around.
RECURSIVE AstSize_Wrapping(_, _, _, _)
AstSize_Wrapping(g, costs, ops, sum) ==
    IF ops = <<>> THEN sum
    ELSE AstSize_Wrapping(g, costs, Tail(ops),
                          (sum + costs[canon_id(g, Head(ops))].cost) % Pow2(UsizeBits))

\* AstSize::cost: enode.fold(1, |sum, id| sum.saturating_add(costs(id).0)),
\* the fold running over the operands from the first to the last.
RECURSIVE AstSize(_, _, _, _)
AstSize(g, costs, ops, sum) ==
    IF ops = <<>> THEN sum
    ELSE AstSize(g, costs, Tail(ops),
                 saturating_add(sum, costs[canon_id(g, Head(ops))].cost))

\* node_total_cost that gives a node with an operand class without cost the
\* cost 1.
node_total_cost_Always(g, costs, node) ==
    IF \A k \in 1..Len(Operands(node)) : canon_id(g, Operands(node)[k]) \in DOMAIN costs
    THEN SomeCost(AstSize(g, costs, Operands(node), 1))
    ELSE SomeCost(1)

\* enode.fold(0, |max, id| max.max(costs(id).0))
RECURSIVE FoldMax(_, _, _, _)
FoldMax(g, costs, ops, max) ==
    IF ops = <<>> THEN max
    ELSE FoldMax(g, costs, Tail(ops), Max(max, costs[canon_id(g, Head(ops))].cost))

\* An addition of usize values as the build makes it: the sum if it fits,
\* else a panic (overflow checks on) or the sum wrapped around (checks off).
UsizeAdd(x, y) ==
    IF x + y <= UsizeMax THEN {[outcome |-> "ok", cost |-> x + y]}
    ELSE {[outcome |-> "panic", cost |-> 0],
          [outcome |-> "ok", cost |-> (x + y) % Pow2(UsizeBits)]}

\* AstDepth::cost: 1 + enode.fold(0, |max, id| max.max(costs(id).0)); the
\* outcomes the call can have.
AstDepth(g, costs, ops) == UsizeAdd(1, FoldMax(g, costs, ops, 0))

\* Extractor::node_total_cost: the cost of a node if all its operand classes
\* have a cost, else None.
node_total_cost(g, costs, node) ==
    IF \A k \in 1..Len(Operands(node)) : canon_id(g, Operands(node)[k]) \in DOMAIN costs
    THEN SomeCost(AstSize(g, costs, Operands(node), 1))
    ELSE NoneCost

\* cmp: None is high.
cmp(x, y) ==
    CASE x.kind = "None" /\ y.kind = "None" -> "Equal"
      [] x.kind = "None" /\ y.kind = "Some" -> "Greater"
      [] x.kind = "Some" /\ y.kind = "None" -> "Less"
      [] OTHER -> IF x.cost < y.cost THEN "Less"
                  ELSE IF x.cost = y.cost THEN "Equal" ELSE "Greater"

\* min_by that keeps the last of several equally minimal elements.
RECURSIVE min_by_Last(_, _, _, _)
min_by_Last(g, costs, nodes, best) ==
    IF nodes = <<>> THEN best
    ELSE LET y == [opt |-> node_total_cost(g, costs, Head(nodes)), node |-> Head(nodes)]
         IN  min_by_Last(g, costs, Tail(nodes),
                         IF cmp(best.opt, y.opt) = "Less" THEN best ELSE y)

\* Iterator::min_by over (node_total_cost(n), n): the first of several equally
\* minimal elements is returned.
RECURSIVE min_by(_, _, _, _)
min_by(g, costs, nodes, best) ==
    IF nodes = <<>> THEN best
    ELSE LET y == [opt |-> node_total_cost(g, costs, Head(nodes)), node |-> Head(nodes)]
         IN  min_by(g, costs, Tail(nodes),
                    IF cmp(best.opt, y.opt) = "Greater" THEN y ELSE best)

\* make_pass that takes the first node of the class, cheapest or not.
make_pass_First(g, costs, nodes) ==
    LET opt == node_total_cost(g, costs, Head(nodes))
    IN  IF opt.kind = "None" THEN [kind |-> "None", cost |-> 0, node |-> <<>>]
        ELSE [kind |-> "Some", cost |-> opt.cost, node |-> Head(nodes)]

\* Extractor::make_pass on a class (its nodes in order; never empty in a
\* graph): the cheapest node and its cost, or None.
make_pass(g, costs, nodes) ==
    LET first == [opt |-> node_total_cost(g, costs, Head(nodes)), node |-> Head(nodes)]
        m == min_by(g, costs, Tail(nodes), first)
    IN  IF m.opt.kind = "None" THEN [kind |-> "None", cost |-> 0, node |-> <<>>]
        ELSE [kind |-> "Some", cost |-> m.opt.cost, node |-> m.node]

\* The pass of find_costs that records every node it is handed, cheaper or not.
RECURSIVE find_costs_pass_Always(_, _, _, _)
find_costs_pass_Always(g, classes, costs, did_something) ==
    IF classes = <<>> THEN [costs |-> costs, did_something |-> did_something]
    ELSE LET class == Head(classes)
             pass == make_pass(g, costs, class.nodes)
             rec == [cost |-> pass.cost, node |-> pass.node]
         IN  IF pass.kind = "Some" /\ (class.id \notin DOMAIN costs
                                       \/ rec # costs[class.id])
             THEN find_costs_pass_Always(g, Tail(classes),
                                         (class.id :> rec) @@ costs, TRUE)
             ELSE find_costs_pass_Always(g, Tail(classes), costs, did_something)

\* One round of the while loop of Extractor::find_costs: for every class in
\* turn, the result of make_pass is recorded if the class has no cost yet or
\* the new cost is smaller than the recorded one.
\* (The body of the for loop is find_costs_class; the loop goes on with the
\* value the body left.)
find_costs_class(g, class, costs, did_something) ==
    LET pass == make_pass(g, costs, class.nodes)
    IN  IF pass.kind = "Some" /\ (class.id \notin DOMAIN costs
                                  \/ pass.cost < costs[class.id].cost)
        THEN [costs |-> (class.id :> [cost |-> pass.cost, node |-> pass.node]) @@ costs,
              did_something |-> TRUE]
        ELSE [costs |-> costs, did_something |-> did_something]

\* The round of find_costs that never reports a scan without change.
RECURSIVE find_costs_pass_NeverQuiet(_, _, _, _)
find_costs_pass_NeverQuiet(g, classes, costs, did_something) ==
    IF classes = <<>> THEN [costs |-> costs, did_something |-> TRUE]
    ELSE CHOOSE r \in {find_costs_pass_NeverQuiet(g, Tail(classes), st.costs, TRUE) :
                          st \in {find_costs_class(g, Head(classes), costs, did_something)}} :
             TRUE

RECURSIVE find_costs_pass(_, _, _, _)
find_costs_pass(g, classes, costs, did_something) ==
    IF classes = <<>> THEN [costs |-> costs, did_something |-> did_something]
    ELSE CHOOSE r \in {find_costs_pass(g, Tail(classes), st.costs, st.did_something) :
                          st \in {find_costs_class(g, Head(classes), costs, did_something)}} :
             TRUE

\* node_total_cost, min_by, make_pass and the round of find_costs for an
\* Extractor whose cost function is AstDepth.  The addition 1 + max is
\* carried out modulo 2^UsizeBits; overflowed tells that some addition of
\* the round went beyond usize::MAX.
DepthOf(g, costs, node) == 1 + FoldMax(g, costs, Operands(node), 0)

HasCost(g, costs, node) ==
    \A k \in 1..Len(Operands(node)) : canon_id(g, Operands(node)[k]) \in DOMAIN costs

node_total_cost_AstDepth(g, costs, node) ==
    IF HasCost(g, costs, node)
    THEN SomeCost(DepthOf(g, costs, node) % Pow2(UsizeBits))
    ELSE NoneCost

RECURSIVE min_by_AstDepth(_, _, _, _)
min_by_AstDepth(g, costs, nodes, best) ==
    IF nodes = <<>> THEN best
    ELSE min_by_AstDepth(g, costs, Tail(nodes),
                         IF cmp(best.opt, node_total_cost_AstDepth(g, costs, Head(nodes)))
                                = "Greater"
                         THEN [opt |-> node_total_cost_AstDepth(g, costs, Head(nodes)),
                               node |-> Head(nodes)]
                         ELSE best)

make_pass_AstDepth(g, costs, nodes) ==
    min_by_AstDepth(g, costs, Tail(nodes),
                    [opt |-> node_total_cost_AstDepth(g, costs, Head(nodes)),
                     node |-> Head(nodes)])

DepthOverflows(g, costs, nodes) ==
    \E k \in 1..Len(nodes) :
        HasCost(g, costs, nodes[k]) /\ DepthOf(g, costs, nodes[k]) > UsizeMax

find_costs_class_AstDepth(g, class, costs, did_something, overflowed) ==
    LET m == make_pass_AstDepth(g, costs, class.nodes)
    IN  IF m.opt.kind = "Some" /\ (class.id \notin DOMAIN costs
                                   \/ m.opt.cost < costs[class.id].cost)
        THEN [costs |-> (class.id :> [cost |-> m.opt.cost, node |-> m.node]) @@ costs,
              did_something |-> TRUE,
              overflowed |-> overflowed \/ DepthOverflows(g, costs, class.nodes)]
        ELSE [costs |-> costs, did_something |-> did_something,
              overflowed |-> overflowed \/ DepthOverflows(g, costs, class.nodes)]

RECURSIVE find_costs_pass_AstDepth(_, _, _, _, _)
find_costs_pass_AstDepth(g, classes, costs, did_something, overflowed) ==
    IF classes = <<>>
    THEN [costs |-> costs, did_something |-> did_something, overflowed |-> overflowed]
    ELSE CHOOSE r \in {find_costs_pass_AstDepth(g, Tail(classes), st.costs,
                                                 st.did_something, st.overflowed) :
                          st \in {find_costs_class_AstDepth(g, Head(classes), costs,
                                                            did_something, overflowed)}} :
             TRUE

\* Extractor::find_best_node
find_best_node(g, costs, eclass) == costs[canon_id(g, eclass)].node

\* IndexSet::insert_full(node).0: the position of the node in the set, the
\* node being appended if it is not in it.
IndexOf(set, node) ==
    IF \E k \in 1..Len(set) : set[k] = node
    THEN CHOOSE k \in 1..Len(set) : set[k] = node
    ELSE Len(set) + 1

insert_full(set, node) ==
    IF \E k \in 1..Len(set) : set[k] = node THEN set ELSE Append(set, node)

map_operands(node, ids) ==
    IF Operands(node) = <<>> THEN node
    ELSE ENode(node[1], [k \in 1..Len(Operands(node)) |-> ids[Operands(node)[k]]])

\* The operands of a node that are not yet in ids, pushed in operand order.
RECURSIVE PushMissing(_, _, _)
PushMissing(todo, ops, ids) ==
    IF ops = <<>> THEN todo
    ELSE PushMissing(IF Head(ops) \in DOMAIN ids THEN todo ELSE Append(todo, Head(ops)),
                     Tail(ops), ids)

\* The number of rounds of the while loop of try_build_recexpr followed; a
\* loop still running after them is reported as not ended.
MaxBuildSteps == 40
MaxPasses == 6

\* Construct::try_build_recexpr with get_node = find_best_node: the while
\* loop over the todo stack, then the root node; positions in the RecExpr are
\* 1, 2, ... here.
RECURSIVE try_build_recexpr(_, _, _, _, _, _, _)
try_build_recexpr(g, costs, root, set, ids, todo, steps) ==
    IF todo = <<>>
    THEN [ended |-> TRUE, nodes |-> Append(set, map_operands(root, ids))]
    ELSE IF steps = 0 THEN [ended |-> FALSE, nodes |-> <<>>]
    ELSE LET id == todo[Len(todo)]
             popped == SubSeq(todo, 1, Len(todo) - 1)
         IN  IF id \in DOMAIN ids
             THEN try_build_recexpr(g, costs, root, set, ids, popped, steps - 1)
             ELSE LET node == find_best_node(g, costs, id)
                      has_all == \A k \in 1..Len(Operands(node)) :
                                     Operands(node)[k] \in DOMAIN ids
                  IN  IF has_all
                      THEN LET mapped == map_operands(node, ids)
                           IN  try_build_recexpr(g, costs, root,
                                                 insert_full(set, mapped),
                                                 (id :> IndexOf(set, mapped)) @@ ids,
                                                 popped, steps - 1)
                      ELSE try_build_recexpr(g, costs, root, set, ids,
                                             PushMissing(todo, Operands(node), ids),
                                             steps - 1)

\* Extractor::find_best: the recorded cost of the class and the RecExpr built
\* from its recorded node; indexing costs by a class without cost panics.
find_best(g, costs, eclass) ==
    IF canon_id(g, eclass) \notin DOMAIN costs
    THEN [outcome |-> "panic", cost |-> 0, expr |-> <<>>]
    ELSE LET rec == costs[canon_id(g, eclass)]
             b == try_build_recexpr(g, costs, rec.node, <<>>, <<>>,
                                    Operands(rec.node), MaxBuildSteps)
         IN  [outcome |-> IF b.ended THEN "ok" ELSE "loops", cost |-> rec.cost,
              expr |-> b.nodes]

\* A function called on its own: its name, its arguments, what it returned.
FnCall(f, args, out) == [f |-> f, args |-> args, out |-> out]

NoFnCall == FnCall("none", <<>>, <<>>)

\* An extractor and its caller: the graph borrowed is eg.g; classes is what
\* egraph.classes() yields, in its order; last is the last find_best call.
NoExtractor ==
    [pc |-> "none", cost_function |-> "AstSize", classes |-> <<>>, costs |-> <<>>,
     passes |-> 0,
     last |-> [eclass |-> 0, outcome |-> "none", cost |-> 0, expr |-> <<>>]]

(***************************************************************************)
(* Runner::new and the builder calls: the state before Runner::run.        *)
(***************************************************************************)
RuleSets ==
    UNION {[1..n -> RuleKinds] : n \in 0..MaxRules}

AllGrow(ks) == Len(ks) > 0 /\ \A r \in 1..Len(ks) : ks[r] = "grow"

\* The configurations explored: every combination of rule set, hook list and
\* iteration limit up to the bounds, and the default iteration limit for the
\* rule sets that grow the graph in every round (they end by the node limit).
Init ==
    /\ \E ks \in RuleSets, n \in 0..MaxHooks :
          /\ rules = [r \in 1..Len(ks) |-> [name |-> r, kind |-> ks[r]]]
          /\ hooks = [i \in 1..n |-> i]
          /\ \/ iter_limit \in 0..MaxIterLimit
             \/ AllGrow(ks) /\ n = 0 /\ iter_limit = DefaultIterLimit
    /\ node_limit \in NodeLimits
    /\ \/ /\ scheduler = "backoff"
          /\ default_match_limit \in MatchLimits
          /\ default_ban_length \in BanLengths
       \/ /\ scheduler = "simple"
          /\ default_match_limit = 0
          /\ default_ban_length = 0
    /\ stats = <<>>
    /\ \E n \in 1..MaxInitNodes : egraph = [nodes |-> n, classes |-> n, dirty |-> FALSE]
    /\ iterations = <<>>
    /\ stop_reason = None
    /\ elapsed_over = FALSE
    /\ pc = "run"
    /\ result = Ok
    /\ egraph_nodes = 0
    /\ egraph_classes = 0
    /\ egraph_nodes_after_hooks = 0
    /\ egraph_classes_after_hooks = 0
    /\ matches = <<>>
    /\ applied = <<>>
    /\ h = 1
    /\ a = 1
    /\ log = <<>>
    /\ ban_log = <<>>
    /\ cs = [called |-> FALSE, banned |-> {}, ok |-> FALSE]
    /\ sc = NoCaller
    /\ eg = NoEGraph
    /\ ex = NoExtractor
    /\ fcall = NoFnCall

Event(ev, idx, out) == [ev |-> ev, idx |-> idx, out |-> out]

\* The statistics search_rewrite works on: rule_stats creates the entry on
\* first use.
rule_stats(st, name) ==
    IF name \in DOMAIN st THEN st[name]
    ELSE NewRuleStats(default_match_limit, default_ban_length)

(***************************************************************************)
(* Runner::run up to the loop: collect the rules, rebuild the graph.       *)
(***************************************************************************)
RunBegin ==
    /\ pc = "run"
    /\ \E c \in RebuildChoices(egraph) : egraph' = RebuildGraph(egraph, c)
    /\ pc' = "run_one"
    /\ UNCHANGED <<auxvars, cfgvars, stats, iterations, stop_reason, elapsed_over,
                   locvars, log, ban_log, cs>>

(***************************************************************************)
(* Runner::run_one, start of the round: try_start, the first check_limits, *)
(* the sizes at the start of the round.                                    *)
(***************************************************************************)
RunOneStart ==
    /\ pc = "run_one"
    /\ stop_reason = None
    /\ \E t \in BOOLEAN :
          /\ elapsed_over' = (elapsed_over \/ t)
          /\ result' = check_limits(elapsed_over', egraph, Len(iterations),
                                    node_limit, iter_limit)
    /\ egraph_nodes' = total_size(egraph)
    /\ egraph_classes' = number_of_classes(egraph)
    /\ egraph_nodes_after_hooks' = 0
    /\ egraph_classes_after_hooks' = 0
    /\ matches' = <<>>
    /\ applied' = <<>>
    /\ h' = 1
    /\ a' = 1
    /\ log' = <<>>
    /\ cs' = [called |-> FALSE, banned |-> {}, ok |-> FALSE]
    /\ pc' = "hooks"
    /\ UNCHANGED <<auxvars, cfgvars, stats, egraph, iterations, stop_reason, ban_log>>

(***************************************************************************)
(* The hook phase: hooks.iter_mut().try_for_each(..), one hook per step.   *)
(* A hook returns Ok(()) or Err(msg) and may add a node to the graph.      *)
(***************************************************************************)
\* The message hook k fails with.
HookMsg(k) == IF k = 1 THEN "m1" ELSE IF k = 2 THEN "m2" ELSE "m3"

HookOutcomes(k) == {[ret |-> Ok, added |-> n] : n \in {0, 1}}
                   \cup {[ret |-> Other(HookMsg(k)), added |-> 0]}

HookCall_Reversed ==
    /\ pc = "hooks"
    /\ IsOk(result)
    /\ h <= Len(hooks)
    /\ \E o \in HookOutcomes(hooks[Len(hooks) + 1 - h]) :
          /\ egraph' = GraphAfter(egraph, o.added, 0)
          /\ result' = o.ret
          /\ log' = Append(log, Event("hook", hooks[Len(hooks) + 1 - h],
                                      IF IsOk(o.ret) THEN "Ok" ELSE o.ret.msg))
    /\ h' = h + 1
    /\ UNCHANGED <<auxvars, cfgvars, stats, iterations, stop_reason, elapsed_over, pc,
                   egraph_nodes, egraph_classes, egraph_nodes_after_hooks,
                   egraph_classes_after_hooks, matches, applied, a, ban_log, cs>>

HookCall ==
    /\ pc = "hooks"
    /\ IsOk(result)
    /\ h <= Len(hooks)
    /\ \E o \in HookOutcomes(hooks[h]) :
          /\ egraph' = GraphAfter(egraph, o.added, 0)
          /\ result' = o.ret
          /\ log' = Append(log, Event("hook", hooks[h], IF IsOk(o.ret) THEN "Ok" ELSE o.ret.msg))
    /\ h' = h + 1
    /\ UNCHANGED <<auxvars, cfgvars, stats, iterations, stop_reason, elapsed_over, pc,
                   egraph_nodes, egraph_classes, egraph_nodes_after_hooks,
                   egraph_classes_after_hooks, matches, applied, a, ban_log, cs>>

HooksDone ==
    /\ pc = "hooks"
    /\ ~IsOk(result) \/ h > Len(hooks)
    /\ egraph_nodes_after_hooks' = total_size(egraph)
    /\ egraph_classes_after_hooks' = number_of_classes(egraph)
    /\ pc' = "search"
    /\ UNCHANGED <<auxvars, cfgvars, stats, egraph, iterations, stop_reason, elapsed_over,
                   result, egraph_nodes, egraph_classes, matches, applied, h, a,
                   log, ban_log, cs>>

(***************************************************************************)
(* The search phase: rules.iter().try_for_each(..), one rule per step,     *)
(* each followed by check_limits.                                          *)
(***************************************************************************)
\* fused = FALSE is the code: the search borrows the graph immutably.
\* fused = TRUE applies the matches of a rule as soon as they are found.
\* A panic of search_rewrite unwinds out of Runner::run: the run is over
\* without a stop reason.
SearchStep(fused) ==
    /\ pc = "search"
    /\ IsOk(result)
    /\ Len(matches) < Len(rules)
    /\ LET r == Len(matches) + 1
           rw == rules[r]
           i == Len(iterations)
       IN  \E found \in SearchCounts(rw.kind), t \in BOOLEAN :
              LET ms == search_rewrite(scheduler, rule_stats(stats, rw.name), i, found)
              IN  /\ stats' = IF scheduler = "backoff"
                              THEN (rw.name :> ms.stats) @@ stats
                              ELSE stats
                  /\ matches' = Append(matches, ms.total)
                  /\ IF fused
                     THEN \E e \in ApplyEffects(rw.kind, ms.total, egraph) :
                             /\ egraph' = GraphAfter(egraph, e.added, e.unions)
                             /\ log' = log \o <<Event("search", r, ms.outcome),
                                                Event("apply", r, "applied")>>
                     ELSE /\ egraph' = egraph
                          /\ log' = Append(log, Event("search", r, ms.outcome))
                  /\ elapsed_over' = (elapsed_over \/ t)
                  /\ result' = check_limits(elapsed_over', egraph', Len(iterations),
                                            node_limit, iter_limit)
                  /\ ban_log' = IF ms.outcome = "banned"
                                THEN (rw.name :> [round |-> i, len |-> ms.ban, ff |-> FALSE])
                                     @@ ban_log
                                ELSE ban_log
                  /\ pc' = IF ms.outcome = "panic" THEN "panic" ELSE pc
    /\ UNCHANGED <<auxvars, cfgvars, iterations, stop_reason, egraph_nodes,
                   egraph_classes, egraph_nodes_after_hooks,
                   egraph_classes_after_hooks, applied, h, a, cs>>

SearchRule_Fused == SearchStep(TRUE)

SearchRule == SearchStep(FALSE)

SearchDone ==
    /\ pc = "search"
    /\ ~IsOk(result) \/ Len(matches) >= Len(rules)
    /\ pc' = "apply"
    /\ UNCHANGED <<auxvars, cfgvars, stats, egraph, iterations, stop_reason, elapsed_over,
                   locvars, log, ban_log, cs>>

(***************************************************************************)
(* The apply phase: rules.iter().zip(matches).try_for_each(..), one rule   *)
(* per step, each followed by check_limits.                                *)
(***************************************************************************)
\* applied.get_mut / applied.insert
AddApplied(ap, name, n) ==
    IF name \in DOMAIN ap THEN [ap EXCEPT ![name] = @ + n] ELSE (name :> n) @@ ap

ApplyRule ==
    /\ pc = "apply"
    /\ IsOk(result)
    /\ a <= Min(Len(rules), Len(matches))
    /\ LET rw == rules[a] IN
       \E e \in ApplyEffects(rw.kind, matches[a], egraph), t \in BOOLEAN :
          LET actually_matched == e.unions IN
          /\ egraph' = GraphAfter(egraph, e.added, e.unions)
          /\ applied' = IF actually_matched > 0
                        THEN AddApplied(applied, rw.name, actually_matched)
                        ELSE applied
          /\ elapsed_over' = (elapsed_over \/ t)
          /\ result' = check_limits(elapsed_over', egraph', Len(iterations),
                                    node_limit, iter_limit)
          /\ log' = Append(log, Event("apply", a, "applied"))
    /\ a' = a + 1
    /\ UNCHANGED <<auxvars, cfgvars, stats, iterations, stop_reason, pc, egraph_nodes,
                   egraph_classes, egraph_nodes_after_hooks,
                   egraph_classes_after_hooks, matches, h, ban_log, cs>>

(***************************************************************************)
(* End of the apply phase and self.egraph.rebuild().                       *)
(***************************************************************************)
\* A round that rebuilds only when its result is Ok.
Rebuild_SkippedOnError ==
    /\ pc = "apply"
    /\ ~IsOk(result) \/ a > Min(Len(rules), Len(matches))
    /\ IF IsOk(result)
       THEN \E c \in RebuildChoices(egraph) :
               /\ egraph' = RebuildGraph(egraph, c)
               /\ log' = Append(log, Event("rebuild", 0, "rebuilt"))
       ELSE egraph' = egraph /\ log' = log
    /\ pc' = "saturation"
    /\ UNCHANGED <<auxvars, cfgvars, stats, iterations, stop_reason, elapsed_over,
                   locvars, ban_log, cs>>

Rebuild ==
    /\ pc = "apply"
    /\ ~IsOk(result) \/ a > Min(Len(rules), Len(matches))
    /\ \E c \in RebuildChoices(egraph) :
          /\ egraph' = RebuildGraph(egraph, c)
          /\ log' = Append(log, Event("rebuild", 0, "rebuilt"))
    /\ pc' = "saturation"
    /\ UNCHANGED <<auxvars, cfgvars, stats, iterations, stop_reason, elapsed_over,
                   locvars, ban_log, cs>>

(***************************************************************************)
(* The saturation condition, the Iteration value, and its push in run.     *)
(***************************************************************************)
\* can_be_saturated: && evaluates can_stop only when applied is empty.
CanStopCalled(ap) == DOMAIN ap = {}

can_be_saturated_NoCanStop(ap, stop_ok, n0, c0, n1, c1, g) ==
    /\ DOMAIN ap = {}
    /\ n0 = n1
    /\ c0 = c1
    /\ n0 = total_size(g)
    /\ c0 = number_of_classes(g)

can_be_saturated_NoSizes(ap, stop_ok, n0, c0, n1, c1, g) ==
    /\ DOMAIN ap = {}
    /\ stop_ok

can_be_saturated(ap, stop_ok, n0, c0, n1, c1, g) ==
    /\ DOMAIN ap = {}
    /\ stop_ok
    /\ n0 = n1
    /\ c0 = c1
    /\ n0 = total_size(g)
    /\ c0 = number_of_classes(g)

Iteration(ap, n, c, res) ==
    [applied |-> ap, egraph_nodes |-> n, egraph_classes |-> c,
     stop_reason |-> IF IsOk(res) THEN None ELSE res]

\* A push that overwrites the last element of a vector that has one.
push_OverLast(v, x) == IF v = <<>> THEN <<x>> ELSE [v EXCEPT ![Len(v)] = x]

\* self.iterations.push(iter) in Runner::run
push(v, x) == Append(v, x)

Saturation ==
    /\ pc = "saturation"
    /\ LET i == Len(iterations)
           called == CanStopCalled(applied)
           st == can_stop(scheduler, stats, i)
           sat == can_be_saturated(applied, called /\ st.ok, egraph_nodes,
                                   egraph_classes, egraph_nodes_after_hooks,
                                   egraph_classes_after_hooks, egraph)
       IN  /\ stats' = IF called THEN st.stats ELSE stats
           /\ cs' = [called |-> called, banned |-> Banned(stats, i),
                     ok |-> called /\ st.ok]
           /\ ban_log' = IF called
                         THEN [n \in DOMAIN ban_log |->
                                  IF n \in Banned(stats, i)
                                  THEN [ban_log[n] EXCEPT !.ff = TRUE]
                                  ELSE ban_log[n]]
                         ELSE ban_log
           /\ result' = IF sat THEN ResultAnd(result, Saturated) ELSE result
           /\ iterations' = push(iterations,
                                 Iteration(applied, egraph_nodes, egraph_classes, result'))
           /\ log' = Append(log, Event("saturation", 0, IF sat THEN "yes" ELSE "no"))
    /\ pc' = "pushed"
    /\ UNCHANGED <<auxvars, cfgvars, egraph, stop_reason, elapsed_over, egraph_nodes,
                   egraph_classes, egraph_nodes_after_hooks,
                   egraph_classes_after_hooks, matches, applied, h, a>>

(***************************************************************************)
(* Runner::run, the rest of the loop body: stop on the Iteration's stop    *)
(* reason or on check_limits, else run the next round.                     *)
(***************************************************************************)
RunLoop_NoBreak ==
    /\ pc = "pushed"
    /\ \E t \in BOOLEAN :
          /\ elapsed_over' = (elapsed_over \/ t)
          /\ LET stop == OrElse(iterations[Len(iterations)].stop_reason,
                                check_limits(elapsed_over', egraph, Len(iterations),
                                             node_limit, iter_limit))
             IN  /\ stop_reason' = stop
                 /\ pc' = "run_one"
    /\ UNCHANGED <<auxvars, cfgvars, stats, egraph, iterations, locvars, log, ban_log, cs>>

RunLoop ==
    /\ pc = "pushed"
    /\ \E t \in BOOLEAN :
          /\ elapsed_over' = (elapsed_over \/ t)
          /\ LET stop == OrElse(iterations[Len(iterations)].stop_reason,
                                check_limits(elapsed_over', egraph, Len(iterations),
                                             node_limit, iter_limit))
             IN  IF stop # None
                 THEN stop_reason' = stop /\ pc' = "done"
                 ELSE stop_reason' = stop_reason /\ pc' = "run_one"
    /\ UNCHANGED <<auxvars, cfgvars, stats, egraph, iterations, locvars, log, ban_log, cs>>

Next ==
    \/ RunBegin
    \/ RunOneStart
    \/ HookCall
    \/ HooksDone
    \/ SearchRule
    \/ SearchDone
    \/ ApplyRule
    \/ Rebuild
    \/ Saturation
    \/ RunLoop

Spec == Init /\ [][Next]_vars

\* A Runner whose BackoffScheduler was built with_initial_match_limit(0) and
\* whose iteration limit lets a rule be searched once more than usize has
\* bits.
InitZeroLimit ==
    /\ \E ks \in RuleSets, n \in 0..MaxHooks :
          /\ rules = [r \in 1..Len(ks) |-> [name |-> r, kind |-> ks[r]]]
          /\ hooks = [i \in 1..n |-> i]
          /\ iter_limit = UsizeBits + 1
    /\ node_limit \in NodeLimits
    /\ scheduler = "backoff"
    /\ default_match_limit = 0
    /\ default_ban_length \in BanLengths
    /\ stats = <<>>
    /\ \E n \in 1..MaxInitNodes : egraph = [nodes |-> n, classes |-> n, dirty |-> FALSE]
    /\ iterations = <<>>
    /\ stop_reason = None
    /\ elapsed_over = FALSE
    /\ pc = "run"
    /\ result = Ok
    /\ egraph_nodes = 0
    /\ egraph_classes = 0
    /\ egraph_nodes_after_hooks = 0
    /\ egraph_classes_after_hooks = 0
    /\ matches = <<>>
    /\ applied = <<>>
    /\ h = 1
    /\ a = 1
    /\ log = <<>>
    /\ ban_log = <<>>
    /\ cs = [called |-> FALSE, banned |-> {}, ok |-> FALSE]
    /\ sc = NoCaller
    /\ eg = NoEGraph
    /\ ex = NoExtractor
    /\ fcall = NoFnCall

SpecZeroLimit == InitZeroLimit /\ [][Next]_vars

(***************************************************************************)
(* A BackoffScheduler driven through its RewriteScheduler methods by any   *)
(* caller: search_rewrite and can_stop in any order, with a round index    *)
(* that never decreases.  The configuration is what the builder methods    *)
(* give: with_initial_match_limit, with_ban_length, do_not_ban.            *)
(***************************************************************************)
MaxSchedRules == 2
MaxSchedCalls == 6
MaxSchedRounds == 2
SchedMatchLimits == {0, 1}
SchedBanLengths == {1, 2}
\* The numbers of substitutions a rule has in the graph: none, one, a few,
\* as many as a usize counts.
SchedFounds == {0, 1, 3, UsizeMax}
SchedRules == 1..MaxSchedRules

\* The variables of the Runner other than the scheduler's statistics.
runnervars == <<cfgvars, egraph, iterations, stop_reason, elapsed_over, pc,
                locvars, log, ban_log, cs>>

\* No Runner is running: pc is outside run and run_one.
RunnerIdle(at) ==
    /\ iter_limit = 0
    /\ node_limit = 0
    /\ hooks = <<>>
    /\ rules = <<>>
    /\ egraph = [nodes |-> 0, classes |-> 0, dirty |-> FALSE]
    /\ iterations = <<>>
    /\ stop_reason = None
    /\ elapsed_over = FALSE
    /\ pc = at
    /\ result = Ok
    /\ egraph_nodes = 0
    /\ egraph_classes = 0
    /\ egraph_nodes_after_hooks = 0
    /\ egraph_classes_after_hooks = 0
    /\ matches = <<>>
    /\ applied = <<>>
    /\ h = 1
    /\ a = 1
    /\ log = <<>>
    /\ ban_log = <<>>
    /\ cs = [called |-> FALSE, banned |-> {}, ok |-> FALSE]

do_not_ban_Default(st, name, ml, bl) ==
    (name :> NewRuleStats(ml, bl)) @@ st

\* BackoffScheduler::do_not_ban: the rule's entry gets match_limit usize::MAX.
do_not_ban(st, name, ml, bl) ==
    (name :> [NewRuleStats(ml, bl) EXCEPT !.match_limit = UsizeMax]) @@ st

RECURSIVE DoNotBanAll(_, _, _, _)
DoNotBanAll(st, names, ml, bl) ==
    IF names = {} THEN st
    ELSE LET n == CHOOSE x \in names : TRUE
         IN  DoNotBanAll(do_not_ban(st, n, ml, bl), names \ {n}, ml, bl)

InitBackoff ==
    /\ RunnerIdle("scheduler")
    /\ scheduler = "backoff"
    /\ default_match_limit \in SchedMatchLimits
    /\ default_ban_length \in SchedBanLengths
    /\ \E names \in SUBSET SchedRules :
          /\ stats = DoNotBanAll(<<>>, names, default_match_limit, default_ban_length)
          /\ sc = [NoCaller EXCEPT !.dnb = names]
    /\ eg = NoEGraph
    /\ ex = NoExtractor
    /\ fcall = NoFnCall

Panicked == sc.last.out.outcome = "panic"

\* scheduler.search_rewrite(iteration, egraph, rewrite)
SchedSearch ==
    /\ pc = "scheduler"
    /\ ~Panicked
    /\ sc.calls < MaxSchedCalls
    /\ \E name \in SchedRules, found \in SchedFounds :
          LET s == rule_stats(stats, name)
              ms == BackoffSearch(s, sc.iter, found)
          IN  /\ stats' = (name :> ms.stats) @@ stats
              /\ sc' = [sc EXCEPT
                          !.calls = @ + 1,
                          !.last = SchedCall("search", name, found, sc.iter,
                                             (name :> s) @@ stats,
                                             [total |-> ms.total, outcome |-> ms.outcome,
                                              ban |-> ms.ban, ok |-> FALSE])]
    /\ UNCHANGED <<runnervars, eg, ex, fcall>>

\* scheduler.can_stop(iteration)
SchedCanStop ==
    /\ pc = "scheduler"
    /\ ~Panicked
    /\ sc.calls < MaxSchedCalls
    /\ LET st == BackoffCanStop(stats, sc.iter)
       IN  /\ stats' = st.stats
           /\ sc' = [sc EXCEPT
                       !.calls = @ + 1,
                       !.last = SchedCall("can_stop", 0, 0, sc.iter, stats,
                                          [total |-> 0, outcome |-> "none",
                                           ban |-> 0, ok |-> st.ok])]
    /\ UNCHANGED <<runnervars, eg, ex, fcall>>

\* The caller goes on to its next round.
SchedNextRound ==
    /\ pc = "scheduler"
    /\ ~Panicked
    /\ sc.iter < MaxSchedRounds
    /\ sc' = [sc EXCEPT !.iter = @ + 1]
    /\ UNCHANGED <<runnervars, stats, eg, ex, fcall>>

NextBackoff ==
    \/ SchedSearch
    \/ SchedCanStop
    \/ SchedNextRound

SpecBackoff == InitBackoff /\ [][NextBackoff]_vars

(***************************************************************************)
(* An e-graph used on its own: its caller adds nodes, unions classes,      *)
(* rebuilds, and runs one round of saturation with the commutativity rule  *)
(* Mul(?a, ?b) -> Mul(?b, ?a), in any order.                               *)
(***************************************************************************)
\* The nodes a caller can add: a leaf, or Mul of two ids of the graph.
EgNodes(g) ==
    {ENode(l, <<>>) : l \in Leaves} \cup
    {ENode("Mul", <<i, j>>) : i \in Ids(g), j \in Ids(g)}

\* Searching the pattern Mul(?a, ?b): one match per class and Mul node of it,
\* binding ?a and ?b to the node's operands.
SearchMul(g) ==
    {[eclass |-> c, subst |-> [va |-> Operands(n)[1], vb |-> Operands(n)[2]]] :
        <<c, n>> \in {cn \in UNION {{<<r, m>> : m \in g.nodes[r]} : r \in Roots(g)} :
                          cn[2][1] = "Mul"}}

\* ENodeOrVar: a node of a pattern is a pattern variable or a node whose
\* operands are positions of the pattern.
PVar(w) == [var |-> w, enode |-> <<>>]
PENode(e) == [var |-> "", enode |-> e]

\* The right-hand side Mul(?b, ?a) of the commutativity rule.
CommutedMul == <<PVar("vb"), PVar("va"), PENode(ENode("Mul", <<1, 2>>))>>

\* apply_pat from position i of the pattern on: a variable gives the id the
\* substitution binds it to, a node is added with its operands replaced by
\* what ids holds at their positions; the id is stored in ids at i.
RECURSIVE apply_pat_loop(_, _, _, _, _)

\* ids[i] = id, and the rest of the loop; r is the graph and the id.
apply_pat_store(ids, pat, r, subst, i) ==
    apply_pat_loop([ids EXCEPT ![i] = r.id], pat, r.g, subst, i + 1)

apply_pat_loop(ids, pat, g, subst, i) ==
    IF i > Len(pat) THEN [g |-> g, id |-> ids[Len(ids)], ids |-> ids]
    ELSE apply_pat_store(ids, pat,
                         IF pat[i].var # "" THEN [g |-> g, id |-> subst[pat[i].var]]
                         ELSE add(g, map_operands(pat[i].enode, ids)),
                         subst, i)

apply_pat(ids, pat, g, subst) == apply_pat_loop(ids, pat, g, subst, 1)

\* The body of the loops of apply_matches with explanations disabled, in
\* the variant given: "code" is the code's, "no_union" leaves the union out,
\* "always_added" pushes the id whatever the union returned.  p is what
\* apply_pat returned, u what the union returned.
RECURSIVE apply_substs(_, _, _, _, _, _, _)

\* did_something = egraph.union(id, mat.eclass)
apply_union(variant, p, eclass) ==
    IF variant = "no_union" THEN [g |-> p.g, did |-> FALSE] ELSE union(p.g, p.id, eclass)

\* if did_something { added.push(id) }, and the next substitution
apply_push(variant, pat, eclass, substs, added, p, u) ==
    apply_substs(variant, pat, u.g, p.ids, eclass, Tail(substs),
                 IF variant = "always_added" \/ u.did THEN Append(added, p.id) ELSE added)

apply_subst(variant, pat, eclass, substs, added, p) ==
    apply_push(variant, pat, eclass, substs, added, p, apply_union(variant, p, eclass))

apply_substs(variant, pat, g, id_buf, eclass, substs, added) ==
    IF substs = <<>> THEN [g |-> g, id_buf |-> id_buf, added |-> added]
    ELSE apply_subst(variant, pat, eclass, substs, added,
                     apply_pat(id_buf, pat, g, Head(substs)))

RECURSIVE apply_matches_loop(_, _, _, _, _, _)

\* The next match, after the substitutions of a match returned r.
apply_matches_rest(variant, pat, mats, r) ==
    apply_matches_loop(variant, pat, r.g, r.id_buf, Tail(mats), r.added)

apply_matches_loop(variant, pat, g, id_buf, mats, added) ==
    IF mats = <<>> THEN [g |-> g, added |-> added]
    ELSE apply_matches_rest(variant, pat, mats,
                            apply_substs(variant, pat, g, id_buf, Head(mats).eclass,
                                         Head(mats).substs, added))

\* id_buf = vec![ID::new(0); ast.len()]
NewIdBuf(pat) == [k \in 1..Len(pat) |-> 1]

apply_matches_NoUnion(pat, g, mats) ==
    apply_matches_loop("no_union", pat, g, NewIdBuf(pat), mats, <<>>)

apply_matches_AlwaysAdded(pat, g, mats) ==
    apply_matches_loop("always_added", pat, g, NewIdBuf(pat), mats, <<>>)

\* Pattern::apply_matches with explanations disabled: every substitution of
\* every match instantiates the pattern and unions the id with the matched
\* class; the ids whose union did something are returned.
apply_matches(pat, g, mats) ==
    apply_matches_loop("code", pat, g, NewIdBuf(pat), mats, <<>>)

\* The matches of a search as the slice handed to apply_matches, in some
\* order, each with its one substitution.
RECURSIVE MatchList(_)
MatchList(ms) ==
    IF ms = {} THEN <<>>
    ELSE LET mat == CHOOSE x \in ms : TRUE
         IN  <<[eclass |-> mat.eclass, substs |-> <<mat.subst>>]>> \o MatchList(ms \ {mat})

\* Runner::run with an iteration limit of 1 and the commutativity rule: the
\* rebuild before the loop, then one round (search, apply, rebuild).
RunOneRound(g) ==
    LET g0 == rebuild(g, 0, 0).g
        ap == apply_matches(CommutedMul, g0, MatchList(SearchMul(g0)))
        rb == rebuild(ap.g, 0, 0)
    IN  [g |-> rb.g, applied |-> Len(ap.added), passes |-> rb.passes, unions |-> rb.unions]

InitEGraph ==
    /\ RunnerIdle("egraph")
    /\ scheduler = "simple"
    /\ default_match_limit = 0
    /\ default_ban_length = 0
    /\ stats = <<>>
    /\ sc = NoCaller
    /\ eg = NoEGraph
    /\ ex = NoExtractor
    /\ fcall = NoFnCall

EgStep(g, call) ==
    /\ pc = "egraph"
    /\ eg.ops < MaxEgOps
    /\ Len(g.parent) <= MaxIds
    /\ eg' = [g |-> g, ops |-> eg.ops + 1, prev |-> eg.last, last |-> call]
    /\ UNCHANGED <<runnervars, stats, sc, ex, fcall>>

EgAdd ==
    \E n \in EgNodes(eg.g) :
        LET r == add(eg.g, n)
        IN  EgStep(r.g, EgCall("add", <<n>>, r.id, FALSE, 0, 0, EmptyGraph))

EgUnion ==
    \E i \in Ids(eg.g), j \in Ids(eg.g) :
        LET r == union(eg.g, i, j)
        IN  EgStep(r.g, EgCall("union", <<i, j>>, 0, r.did, 0, 0, EmptyGraph))

EgRebuild ==
    LET r == rebuild(eg.g, 0, 0)
    IN  EgStep(r.g, EgCall("rebuild", <<>>, 0, FALSE, r.passes, r.unions, EmptyGraph))

EgRound ==
    LET r == RunOneRound(eg.g)
    IN  EgStep(r.g, EgCall("round", <<>>, r.applied, FALSE, r.passes, r.unions, eg.g))

NextEGraph ==
    \/ EgAdd
    \/ EgUnion
    \/ EgRebuild
    \/ EgRound

SpecEGraph == InitEGraph /\ [][NextEGraph]_vars

(***************************************************************************)
(* An extractor used on its own: Extractor::new on a rebuilt graph (the    *)
(* rounds of find_costs one by one), then find_best calls.                 *)
(***************************************************************************)
\* The graphs of up to MaxIds ids built by up to k add and union calls.
RECURSIVE BuiltGraphs(_)
BuiltGraphs(k) ==
    IF k = 0 THEN {EmptyGraph}
    ELSE LET R == BuiltGraphs(k - 1)
         IN  R \cup {gr \in UNION {{add(g, n).g : n \in EgNodes(g)} : g \in R} :
                        Len(gr.parent) <= MaxIds}
               \cup UNION {{union(g, i, j).g : i \in Ids(g), j \in Ids(g)} : g \in R}

RebuiltGraphs == {rebuild(g, 0, 0).g : g \in BuiltGraphs(MaxEgOps - 1)}

Perms(S) == {f \in [1..Cardinality(S) -> S] : \A i, j \in DOMAIN f : f[i] = f[j] => i = j}

\* What egraph.classes() can yield: the classes in some order, each with its
\* id and its nodes in some order.
ClassLists(g) ==
    UNION {{[k \in DOMAIN p |-> [id |-> p[k], nodes |-> ns[p[k]]]] :
               ns \in {f \in [Roots(g) -> UNION {Perms(g.nodes[r]) : r \in Roots(g)}] :
                          \A r \in Roots(g) : f[r] \in Perms(g.nodes[r])}} :
           p \in Perms(Roots(g))}

InitExtract ==
    /\ RunnerIdle("extractor")
    /\ scheduler = "simple"
    /\ default_match_limit = 0
    /\ default_ban_length = 0
    /\ stats = <<>>
    /\ sc = NoCaller
    /\ \E g \in RebuiltGraphs : eg = [NoEGraph EXCEPT !.g = g]
    /\ ex = [NoExtractor EXCEPT !.pc = "new"]
    /\ fcall = NoFnCall

\* Extractor::new up to the call of find_costs: costs is empty.
ExtractorNew ==
    /\ pc = "extractor"
    /\ ex.pc = "new"
    /\ \E cl \in ClassLists(eg.g) : ex' = [ex EXCEPT !.pc = "find_costs", !.classes = cl]
    /\ UNCHANGED <<runnervars, stats, sc, eg, fcall>>

\* One round of the while loop of find_costs; the loop ends after a round
\* that recorded nothing, and Extractor::new returns.
FindCostsPass ==
    /\ pc = "extractor"
    /\ ex.pc = "find_costs"
    /\ ex.cost_function = "AstSize"
    /\ LET r == find_costs_pass(eg.g, ex.classes, ex.costs, FALSE)
       IN  ex' = [ex EXCEPT !.costs = r.costs,
                            !.passes = Min(@ + 1, MaxPasses),
                            !.pc = IF r.did_something THEN "find_costs" ELSE "ready"]
    /\ UNCHANGED <<runnervars, stats, sc, eg, fcall>>

\* extractor.find_best(eclass)
FindBest ==
    /\ pc = "extractor"
    /\ ex.pc = "ready"
    /\ \E eclass \in Ids(eg.g) :
          LET r == find_best(eg.g, ex.costs, eclass)
          IN  ex' = [ex EXCEPT !.last = [eclass |-> eclass, outcome |-> r.outcome,
                                         cost |-> r.cost, expr |-> r.expr],
                               !.pc = IF r.outcome = "ok" THEN "ready" ELSE r.outcome]
    /\ UNCHANGED <<runnervars, stats, sc, eg, fcall>>

\* A class of a graph that has lost nodes (a client pruning the class): the
\* nodes of keep stay, the memo forgets the others.
retain_nodes(g, c, keep) ==
    [g EXCEPT !.nodes[c] = keep,
              !.memo = {p \in @ : p[1] \notin (g.nodes[c] \ keep)}]

\* The rebuilt graphs and those with one class pruned, at least one node
\* staying in the class.
PrunedGraphs ==
    RebuiltGraphs \cup
    UNION {UNION {{retain_nodes(g, c, keep) : keep \in (SUBSET g.nodes[c]) \ {{}, g.nodes[c]}} :
                     c \in Roots(g)} : g \in RebuiltGraphs}

InitExtractPruned ==
    /\ RunnerIdle("extractor")
    /\ scheduler = "simple"
    /\ default_match_limit = 0
    /\ default_ban_length = 0
    /\ stats = <<>>
    /\ sc = NoCaller
    /\ \E g \in PrunedGraphs : eg = [NoEGraph EXCEPT !.g = g]
    /\ ex = [NoExtractor EXCEPT !.pc = "new"]
    /\ fcall = NoFnCall

NextExtract ==
    \/ ExtractorNew
    \/ FindCostsPass
    \/ FindBest

SpecExtract == InitExtract /\ [][NextExtract]_vars

SpecExtractPruned == InitExtractPruned /\ [][NextExtract]_vars

\* A graph of five ids in which a class holds Mul(x, Mul(x, x)) and
\* Mul(2, 2): scanned before the class of 2, the class is recorded with the
\* dearer node first and with the cheaper one a round later.
FiveIdGraph ==
    LET g1 == add(EmptyGraph, ENode("x", <<>>)).g
        g2 == add(g1, ENode("2", <<>>)).g
        g3 == add(g2, ENode("Mul", <<1, 1>>)).g
        g4 == add(g3, ENode("Mul", <<1, 3>>)).g
        g5 == add(g4, ENode("Mul", <<2, 2>>)).g
    IN  rebuild(union(g5, 4, 5).g, 0, 0).g

InitExtractDeep ==
    /\ RunnerIdle("extractor")
    /\ scheduler = "simple"
    /\ default_match_limit = 0
    /\ default_ban_length = 0
    /\ stats = <<>>
    /\ sc = NoCaller
    /\ \E g \in RebuiltGraphs \cup {FiveIdGraph} : eg = [NoEGraph EXCEPT !.g = g]
    /\ ex = [NoExtractor EXCEPT !.pc = "new"]
    /\ fcall = NoFnCall

SpecExtractDeep == InitExtractDeep /\ [][NextExtract]_vars

\* One round of find_costs of an Extractor with AstDepth.  A round in which
\* an addition overflowed panics in a build with overflow checks and goes on
\* with the wrapped cost in a build without.
FindCostsPassAstDepth ==
    /\ pc = "extractor"
    /\ ex.pc = "find_costs"
    /\ ex.cost_function = "AstDepth"
    /\ LET r == find_costs_pass_AstDepth(eg.g, ex.classes, ex.costs, FALSE, FALSE)
       IN  \/ ex' = [ex EXCEPT !.costs = r.costs,
                               !.passes = Min(@ + 1, MaxPasses),
                               !.pc = IF r.did_something THEN "find_costs" ELSE "ready"]
           \/ r.overflowed /\ ex' = [ex EXCEPT !.pc = "new_panic"]
    /\ UNCHANGED <<runnervars, stats, sc, eg, fcall>>

\* The graphs built by up to MaxEgOps - 2 calls and rebuilt, these graphs
\* with one class pruned, and the graph of five ids.
ExtractorNewGraphs ==
    LET R == {rebuild(g, 0, 0).g : g \in BuiltGraphs(MaxEgOps - 2)}
    IN  R \cup {FiveIdGraph}
          \cup UNION {UNION {{retain_nodes(g, c, keep) :
                                keep \in (SUBSET g.nodes[c]) \ {{}, g.nodes[c]}} :
                            c \in Roots(g)} : g \in R}

\* Extractor::new with either cost function on these graphs, at its call of
\* find_costs: the
\* classes come in some order, no cost is recorded.  The loop of find_costs
\* runs on as long as it has a round to make.
InitExtractorNew ==
    /\ RunnerIdle("extractor")
    /\ scheduler = "simple"
    /\ default_match_limit = 0
    /\ default_ban_length = 0
    /\ stats = <<>>
    /\ sc = NoCaller
    /\ \E g \in ExtractorNewGraphs :
          /\ eg = [NoEGraph EXCEPT !.g = g]
          /\ \E cl \in ClassLists(g), cf \in {"AstSize", "AstDepth"} :
                ex = [NoExtractor EXCEPT !.pc = "find_costs", !.classes = cl,
                                         !.cost_function = cf]
    /\ fcall = NoFnCall

NextExtractorNew ==
    \/ FindCostsPass
    \/ FindCostsPassAstDepth

SpecExtractorNew ==
    /\ InitExtractorNew
    /\ [][NextExtractorNew]_vars
    /\ WF_vars(FindCostsPass)
    /\ WF_vars(FindCostsPassAstDepth)

(***************************************************************************)
(* An ExprContext used on its own (src/src/expression.rs): a caller makes  *)
(* inserts one after the other.  ID is u32, of the width IdBits here.  The *)
(* node table is fcall.out.nodes; fcall.out.seen maps every node handed to *)
(* an earlier insert to the id that insert returned.                       *)
(***************************************************************************)
IdBits == 2
IdMax == 2 ^ IdBits - 1
MaxContextLen == 7

\* ID::new(val): debug_assert!(val <= u32::MAX as usize), then ID(val as u32):
\* beyond the range a panic in a build with debug assertions, the value
\* truncated in a build without.
ID_new(val) ==
    IF val <= IdMax THEN {[outcome |-> "ok", id |-> val]}
    ELSE {[outcome |-> "panic", id |-> 0],
          [outcome |-> "ok", id |-> val % (2 ^ IdBits)]}

\* A sort_ids that sorts the operands of a power as well.
sort_ids_AlsoPow(n) ==
    IF Operands(n) # <<>> /\ Operands(n)[1] > Operands(n)[2]
    THEN ENode(n[1], <<Operands(n)[2], Operands(n)[1]>>)
    ELSE n

\* ExprContext::sort_ids: ids.sort_unstable() for Add and Mul.
sort_ids(n) ==
    IF n[1] \in {"Add", "Mul"} /\ Operands(n)[1] > Operands(n)[2]
    THEN ENode(n[1], <<Operands(n)[2], Operands(n)[1]>>)
    ELSE n

\* The nodes handed to insert: three leaves and the sums, products and
\* powers of the ids 0 and 1.
ContextNodes ==
    {ENode(l, <<>>) : l \in {"x", "y", "Undef"}} \cup
    {ENode(op, ch) : op \in {"Add", "Mul", "Pow"}, ch \in {<<0, 1>>, <<1, 0>>}}

NewContext ==
    FnCall("new", <<>>, [outcome |-> "ok", id |-> 0, nodes |-> <<>>, seen |-> <<>>])

\* The ids returned so far, by node.
SeenNow ==
    IF fcall.f = "insert" THEN (fcall.args[1] :> fcall.out.id) @@ fcall.out.seen
    ELSE fcall.out.seen

InitContext ==
    /\ RunnerIdle("context")
    /\ scheduler = "simple"
    /\ default_match_limit = 0
    /\ default_ban_length = 0
    /\ stats = <<>>
    /\ sc = NoCaller
    /\ eg = NoEGraph
    /\ ex = NoExtractor
    /\ fcall = NewContext

\* ExprContext::insert(n): sort_ids, insert_full, ID::new of the index (from
\* 0).  The operands of n are ids of nodes of the table.
ContextInsert ==
    /\ pc = "context"
    /\ fcall.out.outcome = "ok"
    /\ \E n \in ContextNodes :
          /\ \A k \in 1..Len(Operands(n)) : Operands(n)[k] < Len(fcall.out.nodes)
          /\ Len(insert_full(fcall.out.nodes, sort_ids(n))) <= MaxContextLen
          /\ \E r \in ID_new(IndexOf(fcall.out.nodes, sort_ids(n)) - 1) :
                fcall' = FnCall("insert", <<n>>,
                                [outcome |-> r.outcome, id |-> r.id,
                                 nodes |-> insert_full(fcall.out.nodes, sort_ids(n)),
                                 seen |-> SeenNow])
    /\ UNCHANGED <<runnervars, stats, sc, eg, ex>>

NextContext == ContextInsert

SpecContext == InitContext /\ [][NextContext]_vars

(***************************************************************************)
(* The functions used on their own: a caller makes one call of one of them *)
(* with arguments of its choice.                                           *)
(***************************************************************************)
MaxOperands == 2
Costs == 0..UsizeMax
CostLists == UNION {[1..n -> Costs] : n \in 0..MaxOperands}

\* A graph whose ids 1..n are their own representatives and the costs a
\* caller's closure gives for them.
IdentityGraph(n) == [EmptyGraph EXCEPT !.parent = [k \in 1..n |-> k]]
CostsOf(child_costs) == [k \in 1..Len(child_costs) |-> [cost |-> child_costs[k], node |-> <<>>]]
OperandsUpTo(n) == [k \in 1..n |-> k]

\* The expression lists a caller hands over: lists of at most MaxExprLen
\* nodes in which every operand is an earlier position (RecExpr::add), a
\* node being a leaf or a product of two operands.
MaxExprLen == 4
NodesOver(n) == {ENode(l, <<>>) : l \in Leaves} \cup {ENode("Mul", <<i, j>>) : i \in 1..n, j \in 1..n}

RECURSIVE ExprListsOfLen(_)
ExprListsOfLen(n) ==
    IF n = 0 THEN {<<>>}
    ELSE {Append(e, nd) : e \in ExprListsOfLen(n - 1), nd \in NodesOver(n - 1)}

ExprLists == UNION {ExprListsOfLen(n) : n \in 1..MaxExprLen}

\* The node tables of an ExprContext: ExprContext::insert sorts the operand
\* ids and keeps one entry per node.
Contexts ==
    {e \in ExprLists :
        /\ \A i \in 1..Len(e) : \A j \in 1..Len(e) : e[i] = e[j] => i = j
        /\ \A i \in 1..Len(e) : Operands(e[i]) # <<>> => Operands(e[i])[1] <= Operands(e[i])[2]}

\* RecExpr::compact: every node in turn has its operands mapped through ids
\* and is put in the IndexSet, and the set becomes the list of nodes.
RECURSIVE compact(_, _, _, _)
compact(nodes, i, ids, set) ==
    IF i > Len(nodes) THEN set
    ELSE LET node == map_operands(nodes[i], ids)
         IN  compact(nodes, i + 1, (i :> IndexOf(set, node)) @@ ids, insert_full(set, node))

\* RecExpr::extract(new_root): build_recexpr of the node at new_root with
\* get_node = the node at the id.
RecExprCosts(expr) == [k \in 1..Len(expr) |-> [cost |-> 0, node |-> expr[k]]]

extract(expr, new_root) ==
    try_build_recexpr(IdentityGraph(Len(expr)), RecExprCosts(expr), expr[new_root],
                      <<>>, <<>>, Operands(expr[new_root]), MaxBuildSteps).nodes

\* Expr::extract_nodes, first loop: the ids in the order the queue gives
\* them, an id being met once for every path from the root to it.
RECURSIVE bfs_order_ids(_, _, _)
bfs_order_ids(cntxt, stack, order) ==
    IF stack = <<>> THEN order
    ELSE bfs_order_ids(cntxt, Tail(stack) \o Operands(cntxt[Head(stack)]),
                       Append(order, Head(stack)))

Reverse(s) == [k \in 1..Len(s) |-> s[Len(s) + 1 - k]]

\* Expr::extract_nodes, second loop, over the order given: each node has
\* its operands replaced by ids[operand], which panics for an operand not in
\* ids, is pushed, and ids[id] becomes its position.
RECURSIVE push_nodes(_, _, _, _)
push_nodes(cntxt, order, ids, nodes) ==
    IF order = <<>> THEN [outcome |-> "ok", nodes |-> nodes]
    ELSE LET id == Head(order)
             n == cntxt[id]
         IN  IF \E k \in 1..Len(Operands(n)) : Operands(n)[k] \notin DOMAIN ids
             THEN [outcome |-> "panic", nodes |-> <<>>]
             ELSE push_nodes(cntxt, Tail(order), (id :> Len(nodes) + 1) @@ ids,
                             Append(nodes, map_operands(n, ids)))

extract_nodes(cntxt, id) ==
    push_nodes(cntxt, Reverse(bfs_order_ids(cntxt, <<id>>, <<>>)), <<>>, <<>>)

InitCalls ==
    /\ RunnerIdle("calls")
    /\ scheduler = "simple"
    /\ default_match_limit = 0
    /\ default_ban_length = 0
    /\ stats = <<>>
    /\ sc = NoCaller
    /\ eg = NoEGraph
    /\ ex = NoExtractor
    /\ fcall = NoFnCall

\* One call is made: nothing is called after it.
NotCalled == pc = "calls" /\ fcall = NoFnCall

Returns(f, args, out) ==
    /\ NotCalled
    /\ fcall' = FnCall(f, args, out)
    /\ UNCHANGED <<runnervars, stats, sc, eg, ex>>

\* AstSize.cost(enode, costs) for a node of n operands with the costs child_costs.
CallAstSize ==
    /\ NotCalled
    /\ \E child_costs \in CostLists :
           Returns("AstSize", child_costs,
                   [outcome |-> "ok",
                    cost |-> AstSize(IdentityGraph(Len(child_costs)), CostsOf(child_costs),
                                     OperandsUpTo(Len(child_costs)), 1)])

\* AstDepth.cost(enode, costs)
CallAstDepth ==
    /\ NotCalled
    /\ \E child_costs \in CostLists :
           \E out \in AstDepth(IdentityGraph(Len(child_costs)), CostsOf(child_costs), OperandsUpTo(Len(child_costs))) :
               Returns("AstDepth", child_costs, out)

\* RecExpr::compact(self)
CallCompact ==
    /\ NotCalled
    /\ \E expr \in ExprLists :
           Returns("compact", <<expr>>,
                   [outcome |-> "ok", nodes |-> compact(expr, 1, <<>>, <<>>)])

\* RecExpr::extract(&self, new_root)
CallExtract ==
    /\ NotCalled
    /\ \E expr \in ExprLists : \E new_root \in 1..Len(expr) :
           Returns("extract", <<expr, new_root>>,
                   [outcome |-> "ok", nodes |-> extract(expr, new_root)])

\* Expr::extract_nodes(&self) of the expression id of a context
CallExtractNodes ==
    /\ NotCalled
    /\ \E cntxt \in Contexts : \E id \in 1..Len(cntxt) :
           Returns("extract_nodes", <<cntxt, id>>, extract_nodes(cntxt, id))

\* The graphs, patterns and matches apply_matches is called with: a graph
\* built by up to MaxApplyOps add and union calls, a pattern over the
\* variables ?a and ?b, and matches of up to MaxSubsts substitutions in all,
\* binding both variables to ids of the graph.
MaxApplyOps == 3
MaxSubsts == 2
ApplyGraphs == BuiltGraphs(MaxApplyOps)

PatternAsts ==
    {<<PVar("va")>>,
     CommutedMul,
     <<PVar("va"), PENode(ENode("2", <<>>)), PENode(ENode("Mul", <<1, 2>>))>>,
     <<PVar("va"), PENode(ENode("Mul", <<1, 1>>)), PENode(ENode("Mul", <<2, 1>>))>>}

Substs(g) == [va : Ids(g), vb : Ids(g)]

SearchMatches(g) ==
    {[eclass |-> c, substs |-> ss] :
        c \in Ids(g), ss \in UNION {[1..n -> Substs(g)] : n \in 1..MaxSubsts}}

MatchLists(g) ==
    {<<>>} \cup {<<m>> : m \in SearchMatches(g)}
           \cup {<<m1, m2>> : m1 \in {m \in SearchMatches(g) : Len(m.substs) = 1},
                              m2 \in {m \in SearchMatches(g) : Len(m.substs) = 1}}

\* Pattern::apply_matches(&self, egraph, matches, rule_name), explanations
\* disabled
CallApplyMatches ==
    /\ NotCalled
    /\ \E g \in ApplyGraphs : \E pat \in PatternAsts : \E mats \in MatchLists(g) :
           Returns("apply_matches", <<pat, g, mats>>, apply_matches(pat, g, mats))

\* A MultiPattern: patterns bound to variables.
MultiPatterns ==
    {<<[v |-> "va", ast |-> p]>> : p \in PatternAsts} \cup
    {<<[v |-> "vb", ast |-> CommutedMul], [v |-> "va", ast |-> <<PVar("vb")>>]>>}

\* Pattern::apply_one without a searcher ast, for the first pattern of the
\* list: the pattern is instantiated and its id is unioned with the class.
apply_one_AsPattern(asts, g, eclass, subst, searcher_ast) ==
    LET p == apply_pat(NewIdBuf(asts[1].ast), asts[1].ast, g, subst)
        u == union(p.g, eclass, p.id)
    IN  [outcome |-> "ok", g |-> u.g, added |-> IF u.did THEN <<eclass>> ELSE <<>>]

\* <MultiPattern as Applier>::apply_one: panics, whatever its arguments.
apply_one(asts, g, eclass, subst, searcher_ast) ==
    [outcome |-> "panic", g |-> g, added |-> <<>>]

\* multipattern.apply_one(egraph, eclass, subst, searcher_ast, rule_name)
CallApplyOne ==
    /\ NotCalled
    /\ \E asts \in MultiPatterns : \E g \in ApplyGraphs : \E eclass \in Ids(g) :
           \E subst \in Substs(g) : \E searcher_ast \in {<<>>} \cup PatternAsts :
               Returns("apply_one", <<asts, g, eclass, subst, searcher_ast>>,
                       apply_one(asts, g, eclass, subst, searcher_ast))

\* <MultiPattern as Applier>::apply_matches: for every substitution of every
\* match the patterns are instantiated in turn; the id of a pattern is bound
\* to the pattern's variable and unioned with what the variable was bound to
\* before; the id of the first pattern is pushed to added, whatever the
\* unions returned.
RECURSIVE multi_asts(_, _, _, _, _)

\* subst.insert(*v, id1), the union with the old binding, the push; r is
\* what apply_pat returned for the i-th pattern.
multi_bind(asts, subst, added, i, r) ==
    multi_asts(asts,
               IF asts[i].v \in DOMAIN subst THEN union(r.g, r.id, subst[asts[i].v]).g
               ELSE r.g,
               (asts[i].v :> r.id) @@ subst,
               IF i = 1 THEN Append(added, r.id) ELSE added,
               i + 1)

multi_asts(asts, g, subst, added, i) ==
    IF i > Len(asts) THEN [g |-> g, added |-> added]
    ELSE multi_bind(asts, subst, added, i,
                    apply_pat(NewIdBuf(asts[i].ast), asts[i].ast, g, subst))

RECURSIVE multi_substs(_, _, _, _)

multi_substs_rest(asts, substs, r) == multi_substs(asts, r.g, substs, r.added)

multi_substs(asts, g, substs, added) ==
    IF substs = <<>> THEN [g |-> g, added |-> added]
    ELSE multi_substs_rest(asts, Tail(substs), multi_asts(asts, g, Head(substs), added, 1))

RECURSIVE multi_matches(_, _, _, _)

multi_matches_rest(asts, mats, r) == multi_matches(asts, r.g, mats, r.added)

multi_matches(asts, g, mats, added) ==
    IF mats = <<>> THEN [g |-> g, added |-> added]
    ELSE multi_matches_rest(asts, Tail(mats),
                            multi_substs(asts, g, Head(mats).substs, added))

multi_apply_matches(asts, g, mats) == multi_matches(asts, g, mats, <<>>)

\* A rule as the apply phase sees it: its name and its applier, a Pattern
\* (one ast) or a MultiPattern.
Rule(name, kind, asts) == [name |-> name, kind |-> kind, asts |-> asts]

\* Rewrite::apply: the applier's apply_matches.
Rewrite_apply(rw, g, mats) ==
    IF rw.kind = "Pattern" THEN apply_matches(rw.asts[1].ast, g, mats)
    ELSE multi_apply_matches(rw.asts, g, mats)

\* RewriteScheduler::apply_rewrite, the default: the number of ids
\* Rewrite::apply returns.
apply_rewrite(r) == Len(r.added)

\* An apply phase that gives every rule applied an entry.
apply_phase_insert_Always(ap, name, actually_matched) ==
    AddApplied(ap, name, actually_matched)

\* if actually_matched > 0 { applied[rw.name] += actually_matched, or insert }
apply_phase_insert(ap, name, actually_matched) ==
    IF actually_matched > 0 THEN AddApplied(ap, name, actually_matched) ELSE ap

\* The apply phase of run_one with no limit reached: the rules in order,
\* each with its matches.
RECURSIVE apply_phase(_, _, _, _)

apply_phase_rest(rws, mss, ap, r) ==
    apply_phase(Tail(rws), Tail(mss), r.g,
                apply_phase_insert(ap, Head(rws).name, apply_rewrite(r)))

apply_phase(rws, mss, g, ap) ==
    IF rws = <<>> THEN [g |-> g, applied |-> ap]
    ELSE apply_phase_rest(rws, mss, ap, Rewrite_apply(Head(rws), g, Head(mss)))

\* The graphs, rule lists and matches of the apply phases called: one rule
\* with any applier and one match of up to MaxSubsts substitutions, or two
\* rules, of one name or of two, each with one match of one substitution.
RoundGraphs == BuiltGraphs(MaxApplyOps - 1)

Appliers ==
    {[kind |-> "Pattern", asts |-> <<[v |-> "", ast |-> p]>>] : p \in PatternAsts} \cup
    {[kind |-> "MultiPattern", asts |-> m] : m \in MultiPatterns}

SecondAppliers ==
    {x \in Appliers : x.asts[1].ast \in {CommutedMul, <<PVar("va")>>}}

RuleLists ==
    {<<Rule(1, x.kind, x.asts)>> : x \in Appliers} \cup
    {<<Rule(1, "Pattern", <<[v |-> "", ast |-> CommutedMul]>>), Rule(n, x.kind, x.asts)>> :
        n \in 1..2, x \in SecondAppliers}

MatchesFor(g, rws) ==
    IF Len(rws) = 1 THEN {<<<<m>>>> : m \in SearchMatches(g)} \cup {<<<<>>>>}
    ELSE {<<<<m1>>, <<m2>>>> : m1 \in {m \in SearchMatches(g) : Len(m.substs) = 1},
                              m2 \in {m \in SearchMatches(g) : Len(m.substs) = 1}}

CallApplyPhase ==
    /\ NotCalled
    /\ \E g \in RoundGraphs : \E rws \in RuleLists : \E mss \in MatchesFor(g, rws) :
           Returns("apply_phase", <<rws, mss, g>>, apply_phase(rws, mss, g, <<>>))

\* The analysis data merged: values of a totally ordered type, and options
\* of them (<<>> is None, <<v>> is Some(v)).
MaxData == 2
Data == 0..MaxData
OptionData == {<<>>} \cup {<<v>> : v \in Data}

DidMerge(a_merged, b_merged) == <<a_merged, b_merged>>

\* merge_min with the flags of the case Ordering::Less left false.
merge_min_NoFlag(to, from) ==
    IF to > from THEN [to |-> from, did |-> DidMerge(TRUE, FALSE)]
    ELSE [to |-> to, did |-> DidMerge(FALSE, FALSE)]

\* merge_max(to, from): what to holds after the call and the DidMerge
\* returned.
merge_max(to, from) ==
    IF to < from THEN [to |-> from, did |-> DidMerge(TRUE, FALSE)]
    ELSE IF to = from THEN [to |-> to, did |-> DidMerge(FALSE, FALSE)]
    ELSE [to |-> to, did |-> DidMerge(FALSE, TRUE)]

\* merge_min(to, from)
merge_min(to, from) ==
    IF to < from THEN [to |-> to, did |-> DidMerge(FALSE, TRUE)]
    ELSE IF to = from THEN [to |-> to, did |-> DidMerge(FALSE, FALSE)]
    ELSE [to |-> from, did |-> DidMerge(TRUE, FALSE)]

\* The closure handed to merge_option: one of the two utilities.
MergeFns == {"merge_max", "merge_min"}
call_merge_fn(merge_fn, to, from) ==
    IF merge_fn = "merge_max" THEN merge_max(to, from) ELSE merge_min(to, from)

\* merge_option(to, from, merge_fn)
merge_option(to, from, merge_fn) ==
    IF to = <<>> /\ from = <<>> THEN [to |-> to, did |-> DidMerge(FALSE, FALSE)]
    ELSE IF to = <<>> THEN [to |-> from, did |-> DidMerge(TRUE, FALSE)]
    ELSE IF from = <<>> THEN [to |-> to, did |-> DidMerge(FALSE, TRUE)]
    ELSE LET r == call_merge_fn(merge_fn, to[1], from[1])
         IN  [to |-> <<r.to>>, did |-> r.did]

CallMergeMax ==
    /\ NotCalled
    /\ \E to \in Data, from \in Data :
           Returns("merge_max", <<to, from>>, merge_max(to, from))

CallMergeMin ==
    /\ NotCalled
    /\ \E to \in Data, from \in Data :
           Returns("merge_min", <<to, from>>, merge_min(to, from))

CallMergeOption ==
    /\ NotCalled
    /\ \E to \in OptionData, from \in OptionData, merge_fn \in MergeFns :
           Returns("merge_option", <<to, from, merge_fn>>, merge_option(to, from, merge_fn))

\* Construct::all and Construct::any on a node whose operands are 1..n, with
\* a predicate that answers answers[k] on operand k.  fold runs its closure
\* on every operand in order; the closure is `acc && f(id)` (`acc || f(id)`),
\* which evaluates f(id) only when acc is true (false).  invoked lists the
\* operands the predicate was called on, in the order of the calls.
MaxPredOperands == 3
Answers == UNION {[1..n -> BOOLEAN] : n \in 0..MaxPredOperands}

RECURSIVE all_fold(_, _, _, _)
all_fold(answers, k, acc, invoked) ==
    IF k > Len(answers) THEN [result |-> acc, invoked |-> invoked]
    ELSE IF acc THEN all_fold(answers, k + 1, answers[k], Append(invoked, k))
         ELSE all_fold(answers, k + 1, FALSE, invoked)

all(answers) == all_fold(answers, 1, TRUE, <<>>)

RECURSIVE any_fold(_, _, _, _)
any_fold(answers, k, acc, invoked) ==
    IF k > Len(answers) THEN [result |-> acc, invoked |-> invoked]
    ELSE IF acc THEN any_fold(answers, k + 1, TRUE, invoked)
         ELSE any_fold(answers, k + 1, answers[k], Append(invoked, k))

any(answers) == any_fold(answers, 1, FALSE, <<>>)

CallAll ==
    /\ NotCalled
    /\ \E answers \in Answers : Returns("all", <<answers>>, all(answers))

CallAny ==
    /\ NotCalled
    /\ \E answers \in Answers : Returns("any", <<answers>>, any(answers))

NextCalls ==
    \/ CallAll
    \/ CallAny
    \/ CallApplyPhase
    \/ CallAstSize
    \/ CallAstDepth
    \/ CallCompact
    \/ CallExtract
    \/ CallExtractNodes
    \/ CallApplyMatches
    \/ CallApplyOne
    \/ CallMergeMax
    \/ CallMergeMin
    \/ CallMergeOption

SpecCalls == InitCalls /\ [][NextCalls]_vars

(***************************************************************************)
(* Properties of the runner and the schedulers.                            *)
(***************************************************************************)
StopKinds == {"Saturated", "IterationLimit", "NodeLimit", "TimeLimit", "Other"}

\* The round the events of log belong to (the index run_one passes to the
\* scheduler): once the Iteration is pushed it is the round just recorded.
RoundOver == pc \in {"pushed", "done", "run_one"} /\ Len(iterations) > 0

Round == IF RoundOver THEN Len(iterations) - 1 ELSE Len(iterations)

LastIteration == iterations[Len(iterations)]

EventsOf(ev) == {p \in 1..Len(log) : log[p].ev = ev}

NoneMatches == \A r \in 1..Len(rules) : rules[r].kind = "none"

AllGrowRules == Len(rules) > 0 /\ \A r \in 1..Len(rules) : rules[r].kind = "grow"

\* C1: for every configuration (iteration limit 0 included) the run reaches
\* its end, and it has ended exactly when stop_reason is set; at the end at
\* least one Iteration is recorded and no step of a further round is possible;
\* before the end the run is never stuck.
C1_RunSetsStopReason ==
    /\ (stop_reason # None) <=> (pc = "done")
    /\ pc = "done" =>
          /\ stop_reason.kind \in StopKinds
          /\ Len(iterations) >= 1
          /\ ~ENABLED Next
    /\ pc # "done" => ENABLED Next

C1_Witness ==
    /\ pc = "done"
    /\ iter_limit = 0
    /\ Len(iterations) = 1
    /\ stop_reason = IterationLimit(0)

\* The run of a Runner with initial match limit 0 is inside search_rewrite of
\* a rule banned as many times as usize has bits: checked_shl yields None and
\* unwrap panics; no stop reason is set and run does not return.
C1_Panic ==
    /\ pc = "panic"
    /\ stop_reason = None
    /\ default_match_limit = 0
    /\ \E r \in DOMAIN stats : stats[r].times_banned = UsizeBits
    /\ Len(iterations) < iter_limit

\* C2: an Iteration carries Saturated only if in its round the applied map is
\* empty, can_stop was asked and returned true, and the node and class counts
\* of the round start equal those after the hooks and those after the rebuild.
C2_SaturatedOnlyIf ==
    \A k \in 1..Len(iterations) :
        iterations[k].stop_reason.kind = "Saturated" =>
            /\ k = Len(iterations)
            /\ DOMAIN iterations[k].applied = {}
            /\ DOMAIN applied = {}
            /\ cs.called /\ cs.ok /\ cs.banned = {}
            /\ iterations[k].egraph_nodes = egraph_nodes_after_hooks
            /\ iterations[k].egraph_classes = egraph_classes_after_hooks
            /\ iterations[k].egraph_nodes = total_size(egraph)
            /\ iterations[k].egraph_classes = number_of_classes(egraph)
            /\ ~egraph.dirty

C2_Witness ==
    /\ pc = "done"
    /\ stop_reason = Saturated
    /\ Len(iterations) = 2
    /\ Len(hooks) = 2
    /\ \E r \in 1..Len(rules) : rules[r].kind = "merge"

\* C3: without hooks, with an iteration limit of at least 1, a graph within
\* the node limit and no time limit hit, a rule set that matches nothing ends
\* after exactly one round with Saturated and an empty applied map, for both
\* schedulers.
C3_Scenario ==
    /\ hooks = <<>>
    /\ iter_limit >= 1
    /\ NoneMatches
    /\ total_size(egraph) <= node_limit
    /\ ~elapsed_over

C3_NoMatchSaturatesAtOnce ==
    C3_Scenario =>
        /\ Len(iterations) <= 1
        /\ pc \in {"pushed", "done"} =>
              /\ Len(iterations) = 1
              /\ iterations[1].stop_reason = Saturated
              /\ iterations[1].applied = <<>>
        /\ pc = "done" => stop_reason = Saturated

C3_Witness ==
    /\ C3_Scenario
    /\ pc = "done"
    /\ scheduler = "backoff"
    /\ Len(rules) = MaxRules
    /\ stop_reason = Saturated

\* C4: with a node limit of 5 and rules that add nodes whenever they are
\* applied, no round is recorded as Saturated; with the default iteration
\* limit, no hooks and no time limit hit the run ends with NodeLimit.
C4_Scenario == node_limit = 5 /\ AllGrowRules

C5_AtMostLimitIterations == Len(iterations) <= iter_limit

\* C5 amended: the run never records more than max(iter_limit, 1) iterations;
\* an IterationLimit stop carries iter_limit and is reached with exactly
\* max(iter_limit, 1) iterations; a run whose last round recorded no stop
\* reason, with the time and node limits not exceeded, ends with
\* IterationLimit(iter_limit).
C5_IterationLimit ==
    /\ Len(iterations) <= Max(iter_limit, 1)
    /\ stop_reason.kind = "IterationLimit" =>
          /\ stop_reason.data = iter_limit
          /\ Len(iterations) = Max(iter_limit, 1)
    /\ (/\ pc = "done"
        /\ LastIteration.stop_reason = None
        /\ ~elapsed_over
        /\ total_size(egraph) <= node_limit)
          => stop_reason = IterationLimit(iter_limit)

C5_Witness ==
    /\ pc = "done"
    /\ iter_limit = MaxIterLimit
    /\ Len(iterations) = MaxIterLimit
    /\ LastIteration.stop_reason = None
    /\ stop_reason = IterationLimit(iter_limit)

\* C6: when a hook returns Err(msg), no later hook is called and no rule is
\* searched or applied in the round, the round's result and Iteration carry
\* Other(msg), no further round starts, and the run ends with Other(msg).
C6_HookErrorStops ==
    \A p \in EventsOf("hook") :
        log[p].out # "Ok" =>
            /\ \A q \in (p + 1)..Len(log) : log[q].ev \in {"rebuild", "saturation"}
            /\ result = Other(log[p].out)
            /\ pc \in {"hooks", "search", "apply", "saturation", "pushed", "done"}
            /\ pc \in {"pushed", "done"} => LastIteration.stop_reason = Other(log[p].out)
            /\ pc = "done" => stop_reason = Other(log[p].out)

C6_Witness ==
    /\ pc = "done"
    /\ Len(hooks) = 2
    /\ Len(rules) = 2
    /\ Len(iterations) = 2
    /\ log[1].ev = "hook" /\ log[1].out = HookMsg(1)
    /\ Cardinality(EventsOf("hook")) = 1
    /\ stop_reason = Other(HookMsg(1))

\* C7: the events of a round come in the order hooks (in the order added),
\* searches (in rule order), applies (in rule order), one rebuild, one
\* saturation test; a search happens only after every hook has returned and an
\* apply only after every rule was searched.
PhaseRank(ev) ==
    CASE ev = "hook" -> 1
      [] ev = "search" -> 2
      [] ev = "apply" -> 3
      [] ev = "rebuild" -> 4
      [] ev = "saturation" -> 5

\* The k-th event of a kind is the event of the k-th hook (rule).
InListOrder(ev) ==
    \A p \in EventsOf(ev) : log[p].idx = Cardinality({q \in EventsOf(ev) : q <= p})

C7_PhaseOrder ==
    /\ \A p, q \in 1..Len(log) : p < q => PhaseRank(log[p].ev) <= PhaseRank(log[q].ev)
    /\ InListOrder("hook") /\ InListOrder("search") /\ InListOrder("apply")
    /\ EventsOf("search") # {} => Cardinality(EventsOf("hook")) = Len(hooks)
    /\ EventsOf("apply") # {} => Cardinality(EventsOf("search")) = Len(rules)
    /\ Cardinality(EventsOf("rebuild")) = (IF pc = "saturation" \/ RoundOver THEN 1 ELSE 0)
    /\ Cardinality(EventsOf("saturation")) = (IF RoundOver THEN 1 ELSE 0)

C7_Witness ==
    /\ pc = "pushed"
    /\ Len(iterations) = 2
    /\ Len(log) = 8
    /\ Cardinality(EventsOf("hook")) = 2
    /\ Cardinality(EventsOf("apply")) = 2

\* C8: during the search phase the graph is the graph the hooks left (no
\* search step changes it), an apply happens only when every rule has been
\* searched, and once the round's result is an error no rule is applied.
ApplyCount(l) == Cardinality({p \in 1..Len(l) : l[p].ev = "apply"})

C8_SearchBeforeApply ==
    /\ [](pc = "search" =>
             /\ total_size(egraph) = egraph_nodes_after_hooks
             /\ number_of_classes(egraph) = egraph_classes_after_hooks
             /\ EventsOf("apply") = {})
    /\ [](EventsOf("apply") # {} => Len(matches) = Len(rules))
    /\ [][(pc = "search" => egraph' = egraph)
          /\ (~IsOk(result) /\ pc' # "hooks" => ApplyCount(log') = ApplyCount(log))]_vars

C8_Witness ==
    /\ pc = "saturation"
    /\ Len(rules) = 2
    /\ Len(matches) = 2
    /\ matches[1] > 0
    /\ Cardinality(EventsOf("apply")) = 2
    /\ total_size(egraph) > egraph_nodes_after_hooks

\* The search event of a rule in the current round, if any.
SearchEventsOf(name) ==
    {p \in EventsOf("search") : rules[log[p].idx].name = name}

\* C9 as stated: a rule banned in round i for ban_length rounds yields no
\* matches (is skipped) in rounds i+1 .. i+ban_length-1 and is searched in
\* round i+ban_length, whatever rounds follow.
C9_BannedForBanLength ==
    \A n \in DOMAIN ban_log :
        \A p \in SearchEventsOf(n) :
            /\ (ban_log[n].round < Round /\ Round < ban_log[n].round + ban_log[n].len)
                  => log[p].out = "skipped"
            /\ Round = ban_log[n].round + ban_log[n].len => log[p].out # "skipped"

\* C9 amended: the rule is skipped in the rounds i+1 .. i+ban_length-1 as
\* long as can_stop has not fast-forwarded its ban, and it is searched again
\* no later than round i+ban_length: banned_until never exceeds i+ban_length
\* and equals it until a fast-forward.
C9_BannedUnlessFastForwarded ==
    \A n \in DOMAIN ban_log :
        /\ stats[n].banned_until <= ban_log[n].round + ban_log[n].len
        /\ ~ban_log[n].ff => stats[n].banned_until = ban_log[n].round + ban_log[n].len
        /\ \A p \in SearchEventsOf(n) :
              /\ (/\ ban_log[n].round < Round
                  /\ Round < ban_log[n].round + ban_log[n].len
                  /\ ~ban_log[n].ff)
                    => log[p].out = "skipped"
              /\ Round >= ban_log[n].round + ban_log[n].len => log[p].out # "skipped"

C9_Witness ==
    \E n \in DOMAIN ban_log :
        /\ ~ban_log[n].ff
        /\ ban_log[n].len >= 2
        /\ Round = ban_log[n].round + ban_log[n].len
        /\ \E p \in SearchEventsOf(n) : log[p].out = "matched"

\* C10: can_stop(i) returns true exactly when no rule has banned_until > i,
\* and a round at whose end some rule has banned_until > i is not recorded as
\* Saturated, also when nothing was applied and the sizes did not change.
BannedAtEnd == cs.banned

C10_NoSaturationWhileBanned ==
    pc \in {"pushed", "done"} =>
        /\ cs.called => (cs.ok <=> BannedAtEnd = {})
        /\ cs.called /\ cs.ok => \A n \in DOMAIN stats : stats[n].banned_until <= Round
        /\ ~cs.called => BannedAtEnd = {n \in DOMAIN stats : stats[n].banned_until > Round}
        /\ BannedAtEnd # {} => LastIteration.stop_reason.kind # "Saturated"

C10_Witness ==
    /\ pc = "done"
    /\ cs.called
    /\ BannedAtEnd # {}
    /\ DOMAIN applied = {}
    /\ egraph_nodes = egraph_nodes_after_hooks
    /\ egraph_nodes = total_size(egraph)
    /\ egraph_classes = egraph_classes_after_hooks
    /\ egraph_classes = number_of_classes(egraph)
    /\ stop_reason.kind = "IterationLimit"

\* The rules banned when the last can_stop call was made.
BannedBefore == Banned(sc.last.pre, sc.last.iteration)

\* C11: a can_stop(i) call that finds banned rules subtracts one and the same
\* delta, the least banned_until of the banned rules minus i, from the
\* banned_until of every banned rule and changes nothing else; afterwards some
\* banned rule has banned_until = i, so a search in round i+1 does not skip it,
\* and the differences between the banned rules' banned_until are as before.
C11_FastForward ==
    sc.last.call = "can_stop" =>
        LET pre == sc.last.pre
            i == sc.last.iteration
        IN  /\ DOMAIN stats = DOMAIN pre
            /\ \A r \in DOMAIN pre \ BannedBefore : stats[r] = pre[r]
            /\ BannedBefore # {} =>
                  \E delta \in 1..(MaxSchedRounds + UsizeMax) :
                     /\ \A r \in BannedBefore : pre[r].banned_until - i >= delta
                     /\ \E r \in BannedBefore : pre[r].banned_until - i = delta
                     /\ \A r \in BannedBefore :
                           stats[r] = [pre[r] EXCEPT !.banned_until = @ - delta]
                     /\ \E r \in BannedBefore :
                           /\ stats[r].banned_until = i
                           /\ \A f \in SchedFounds :
                                 BackoffSearch(stats[r], i + 1, f).outcome # "skipped"
                     /\ \A r1, r2 \in BannedBefore :
                           stats[r1].banned_until - stats[r2].banned_until
                              = pre[r1].banned_until - pre[r2].banned_until

C11_Witness ==
    /\ sc.last.call = "can_stop"
    /\ Cardinality(BannedBefore) = 2
    /\ \E r1, r2 \in BannedBefore :
          /\ sc.last.pre[r1].banned_until - sc.last.iteration >= 2
          /\ sc.last.pre[r2].banned_until > sc.last.pre[r1].banned_until
          /\ stats[r1].banned_until = sc.last.iteration
          /\ stats[r2].banned_until > sc.last.iteration

\* The last search event of the round's log.
LastSearchOut(l) == l[Len(l)].out

\* C12: a search of a rule whose banned_until is above the round index gives
\* no matches, is logged as skipped (the graph is not searched) and leaves all
\* statistics as they are; the search that bans a rule gives no matches and
\* does not count as an application; in both cases the rule's apply step
\* changes nothing in the graph and the rule gets no entry in applied.
C12_BannedRuleSkipped ==
    /\ [](\A p \in EventsOf("search") :
             log[p].out \in {"skipped", "banned"} =>
                /\ matches[log[p].idx] = 0
                /\ rules[log[p].idx].name \notin DOMAIN applied)
    /\ [][(pc = "search" /\ Len(matches') = Len(matches) + 1) =>
             LET r == Len(matches) + 1
                 n == rules[r].name
             IN  /\ (n \in DOMAIN stats /\ Len(iterations) < stats[n].banned_until) =>
                        /\ stats' = stats
                        /\ matches'[r] = 0
                        /\ LastSearchOut(log') = "skipped"
                 /\ (scheduler = "backoff" /\ LastSearchOut(log') = "banned") =>
                        /\ matches'[r] = 0
                        /\ stats'[n].times_applied = rule_stats(stats, n).times_applied
                        /\ stats'[n].banned_until > Len(iterations)]_vars
    /\ [][(pc = "apply" /\ a' = a + 1 /\ matches[a] = 0) =>
             (egraph' = egraph /\ applied' = applied)]_vars

C12_Witness ==
    /\ pc = "pushed"
    /\ \E p, q \in EventsOf("search") :
          /\ log[p].out = "skipped"
          /\ log[q].out = "banned"
    /\ Cardinality(EventsOf("apply")) = 2

\* The last call was a search_rewrite of a rule that was not banned.
SearchedUnbanned ==
    /\ sc.last.call = "search"
    /\ sc.last.iteration >= sc.last.pre[sc.last.rule].banned_until

\* What the doubling rule says about a search of a rule with initial match
\* limit L and initial ban length B that has been banned k times: the
\* threshold is t, the search limit t + 1, a ban lasts b rounds.
DoublingHolds(t, b) ==
    LET n == sc.last.rule
        i == sc.last.iteration
        k == sc.last.pre[n].times_banned
    IN  /\ sc.last.out.outcome \in {"banned", "matched"}
        /\ sc.last.out.outcome = "banned" <=> sc.last.found > t
        /\ sc.last.out.outcome = "matched" =>
              /\ sc.last.out.total = Min(sc.last.found, t + 1)
              /\ stats[n].times_banned = k
        /\ sc.last.out.outcome = "banned" =>
              /\ sc.last.out.ban = b
              /\ stats[n].banned_until = i + b
              /\ stats[n].times_banned = k + 1

\* C13 as stated: every search of an unbanned rule banned k times so far uses
\* the threshold L * 2^k and, when it is exceeded, bans the rule for B * 2^k
\* rounds.
C13_Doubling ==
    SearchedUnbanned =>
        LET s == sc.last.pre[sc.last.rule]
        IN  DoublingHolds(s.match_limit * Pow2(s.times_banned),
                          s.ban_length * Pow2(s.times_banned))

\* C13 within the width of usize: the same, for k below the number of bits of
\* usize and L * 2^k and B * 2^k not above usize::MAX.
C13_DoublingInRange ==
    SearchedUnbanned =>
        LET s == sc.last.pre[sc.last.rule]
        IN  (/\ s.times_banned < UsizeBits
             /\ s.match_limit * Pow2(s.times_banned) <= UsizeMax
             /\ s.ban_length * Pow2(s.times_banned) <= UsizeMax)
              => DoublingHolds(s.match_limit * Pow2(s.times_banned),
                               s.ban_length * Pow2(s.times_banned))

\* A second ban: limit and ban length are twice the initial ones.
C13_Witness ==
    /\ SearchedUnbanned
    /\ sc.last.pre[sc.last.rule].times_banned = 1
    /\ sc.last.pre[sc.last.rule].match_limit = 1
    /\ sc.last.out.outcome = "banned"
    /\ sc.last.out.ban = 2 * sc.last.pre[sc.last.rule].ban_length

\* The search of a rule banned as many times as usize has bits.
C13_PanicReached ==
    /\ Panicked
    /\ sc.last.pre[sc.last.rule].match_limit = 0
    /\ sc.last.pre[sc.last.rule].times_banned = UsizeBits

\* C14: a rule configured with do_not_ban is never banned: its banned_until
\* and times_banned stay 0 in every round, and every search_rewrite of it, for
\* every number of matches, searches it and returns all its matches.
C14_DoNotBan ==
    \A n \in sc.dnb :
        /\ n \in DOMAIN stats
        /\ stats[n].banned_until = 0
        /\ stats[n].times_banned = 0
        /\ (sc.last.call = "search" /\ sc.last.rule = n) =>
              /\ sc.last.out.outcome = "matched"
              /\ sc.last.out.total = sc.last.found
              /\ stats[n].times_applied = sc.last.pre[n].times_applied + 1

\* A do_not_ban rule is searched in a later round, after earlier searches of
\* it, and has as many matches as a usize counts while the default limit is 0.
C14_Witness ==
    /\ sc.last.call = "search"
    /\ sc.last.rule \in sc.dnb
    /\ sc.last.iteration >= 1
    /\ sc.last.found = UsizeMax
    /\ sc.last.pre[sc.last.rule].times_applied >= 1
    /\ default_match_limit = 0
    /\ sc.last.out.total = UsizeMax

(***************************************************************************)
(* Properties of the e-graph.                                              *)
(***************************************************************************)
SameClass(g, i, j) == find(g, i) = find(g, j)

\* C15: after any sequence of add and union operations, union(a, b) leaves
\* find(a) = find(b), ids once in one class stay in one class under every
\* later operation, and find(find(x)) = find(x) for every inserted id x.
C15_UnionFind ==
    /\ [](/\ eg.last.op = "union" =>
                SameClass(eg.g, eg.last.args[1], eg.last.args[2])
          /\ \A x \in Ids(eg.g) :
                /\ find(eg.g, x) \in Ids(eg.g)
                /\ find(eg.g, find(eg.g, x)) = find(eg.g, x))
    /\ [][\A i \in Ids(eg.g), j \in Ids(eg.g) :
             SameClass(eg.g, i, j) => SameClass(eg'.g, i, j)]_vars

\* A union of two classes of two ids each, given by ids that are not both
\* representatives.
C15_Witness ==
    /\ eg.last.op = "union"
    /\ eg.last.did
    /\ eg.prev.op = "union"
    /\ Len(eg.g.parent) = MaxIds
    /\ Cardinality(Roots(eg.g)) = 1
    /\ \E k \in 1..2 : eg.last.args[k] \notin Roots(eg.g)
    /\ \E i \in Ids(eg.g) : eg.g.parent[eg.g.parent[i]] # eg.g.parent[i]

\* The member nodes of the classes of a graph, each with its class.
ClassNodes(g) == UNION {{<<c, n>> : n \in g.nodes[c]} : c \in Roots(g)}

\* The congruence invariant: every node's operands are canonical ids, no two
\* distinct classes hold nodes that are equal after canonicalization, and the
\* memo maps every node to its class.
Congruent(g) ==
    /\ \A cn \in ClassNodes(g) : IsCanonical(g, cn[2])
    /\ \A p \in ClassNodes(g), q \in ClassNodes(g) :
          canonicalize(g, p[2]) = canonicalize(g, q[2]) => p[1] = q[1]
    /\ \A cn \in ClassNodes(g) : InMemo(g, cn[2]) /\ find(g, MemoId(g, cn[2])) = cn[1]

Rebuilt(call) == call.op \in {"rebuild", "round"}

\* C16: a rebuild that follows a rebuild with no add or union in between
\* makes no union, and after every rebuild the graph is congruent.
C16_RebuildFixpoint ==
    /\ (eg.last.op = "rebuild" /\ Rebuilt(eg.prev)) =>
          eg.last.unions = 0 /\ eg.last.passes = 0
    /\ Rebuilt(eg.last) => Congruent(eg.g)

\* A rebuild that made a union in its second pass, followed by a second rebuild.
C16_Witness ==
    /\ eg.last.op = "rebuild"
    /\ eg.prev.op = "rebuild"
    /\ eg.prev.unions >= 1
    /\ eg.prev.passes >= 2
    /\ eg.last.unions = 0

\* The graph after inserting x, 2, Mul(x, 2) and Mul(2, x), and their ids.
ScenarioX == add(EmptyGraph, ENode("x", <<>>))
Scenario2 == add(ScenarioX.g, ENode("2", <<>>))
ScenarioMulX2 == add(Scenario2.g, ENode("Mul", <<ScenarioX.id, Scenario2.id>>))
ScenarioMul2X == add(ScenarioMulX2.g, ENode("Mul", <<Scenario2.id, ScenarioX.id>>))

\* Every class holding Mul(a, b) holds Mul(b, a).
CommutativityClosed(g) ==
    \A cn \in ClassNodes(g) :
        cn[2][1] = "Mul" =>
            ENode("Mul", <<Operands(cn[2])[2], Operands(cn[2])[1]>>) \in g.nodes[cn[1]]

\* C17: after inserting x, 2, Mul(x, 2) and Mul(2, x) as four independent
\* terms, one round with the rule Mul(a, b) -> Mul(b, a) followed by rebuild
\* leaves find(id(Mul(x, 2))) = find(id(Mul(2, x))), x and 2 staying apart;
\* and after a round on any graph a class with Mul(a, b) holds Mul(b, a).
C17_Commutativity ==
    eg.last.op = "round" =>
        /\ eg.last.pre = ScenarioMul2X.g =>
              /\ SameClass(eg.g, ScenarioMulX2.id, ScenarioMul2X.id)
              /\ ~SameClass(eg.g, ScenarioX.id, Scenario2.id)
        /\ CommutativityClosed(eg.g)

\* The round of the scenario: before it the four terms are four classes, the
\* rule is applied, afterwards the two products are one class.
C17_Witness ==
    /\ eg.last.op = "round"
    /\ eg.last.pre = ScenarioMul2X.g
    /\ Cardinality(Roots(eg.last.pre)) = 4
    /\ ScenarioMulX2.id # ScenarioMul2X.id
    /\ eg.last.id >= 1
    /\ Cardinality(Roots(eg.g)) = 3
    /\ SameClass(eg.g, ScenarioMulX2.id, ScenarioMul2X.id)

(***************************************************************************)
(* Properties of the extractor.                                            *)
(***************************************************************************)
\* Extractor::new has returned.
Extracted == ex.pc \in {"ready", "panic", "loops"}

\* The sum of the recorded costs of the operand classes of a node.
RECURSIVE OperandCostSum(_)
OperandCostSum(ops) ==
    IF ops = <<>> THEN 0
    ELSE ex.costs[find(eg.g, Head(ops))].cost + OperandCostSum(Tail(ops))

\* C18: after Extractor::new with AstSize on a rebuilt graph, for every class
\* with a recorded cost the recorded node is a member of the class, its
\* operand classes have recorded costs, and the recorded cost is 1 plus the
\* saturating sum of these costs.
C18_RecordedCost ==
    Extracted =>
        \A c \in DOMAIN ex.costs :
            /\ c \in Roots(eg.g)
            /\ ex.costs[c].node \in eg.g.nodes[c]
            /\ \A k \in 1..Len(Operands(ex.costs[c].node)) :
                  find(eg.g, Operands(ex.costs[c].node)[k]) \in DOMAIN ex.costs
            /\ ex.costs[c].cost =
                  Min(UsizeMax, 1 + OperandCostSum(Operands(ex.costs[c].node)))

\* An extractor whose find_costs needed three rounds and where the sum of
\* one class is above usize::MAX, so that its recorded cost is saturated.
C18_Witness ==
    /\ ex.pc = "ready"
    /\ ex.passes >= 3
    /\ \E c \in DOMAIN ex.costs :
          /\ 1 + OperandCostSum(Operands(ex.costs[c].node)) > UsizeMax + 2
          /\ ex.costs[c].cost = UsizeMax

\* No finite term: above the size of every minimal term of a graph of MaxIds
\* classes (a minimal term has no class twice on a path, so at most MaxIds
\* levels of at most two operands).
NoTerm == 2 ^ (MaxIds + 1)

RECURSIVE SizeSum(_, _, _)
RECURSIVE MinTreeSizeWithin(_, _, _)
\* The minimum number of nodes of a term of at most d levels that class c of
\* graph g represents.
MinTreeSizeWithin(g, c, d) ==
    IF d = 0 THEN NoTerm
    ELSE LET sizes == {Min(NoTerm, 1 + SizeSum(g, Operands(n), d - 1)) : n \in g.nodes[c]}
         IN  CHOOSE m \in sizes : \A o \in sizes : m <= o

SizeSum(g, ops, d) ==
    IF ops = <<>> THEN 0
    ELSE Min(NoTerm, MinTreeSizeWithin(g, find(g, Head(ops)), d)
                        + SizeSum(g, Tail(ops), d))

\* The minimum tree size over all finite terms the class represents.
MinTreeSize(g, c) == MinTreeSizeWithin(g, c, Cardinality(Roots(g)))

\* The number of nodes of the tree a RecExpr position stands for.
RECURSIVE TreeSize(_, _)
RECURSIVE TreeSizeSum(_, _)
TreeSize(expr, i) == 1 + TreeSizeSum(expr, Operands(expr[i]))

TreeSizeSum(expr, ops) ==
    IF ops = <<>> THEN 0 ELSE TreeSize(expr, Head(ops)) + TreeSizeSum(expr, Tail(ops))

\* RecExpr::is_dag: every operand is a position before the node's own.
is_dag(expr) ==
    \A i \in 1..Len(expr) : \A k \in 1..Len(Operands(expr[i])) : Operands(expr[i])[k] < i

LastTreeSize == TreeSize(ex.last.expr, Len(ex.last.expr))

\* C19 as stated: the cost recorded for every class equals the minimum tree
\* size over the finite terms of the class, and find_best returns a term of
\* exactly that cost.
C19_MinimumTreeSize ==
    Extracted =>
        /\ \A c \in Roots(eg.g) :
              c \in DOMAIN ex.costs /\ ex.costs[c].cost = MinTreeSize(eg.g, c)
        /\ ex.last.outcome = "ok" =>
              /\ ex.last.cost = MinTreeSize(eg.g, find(eg.g, ex.last.eclass))
              /\ LastTreeSize = ex.last.cost

\* C19, amended: the cost recorded for every class equals the minimum tree
\* size saturated at usize::MAX, and find_best returns that cost with a term
\* whose tree size, saturated at usize::MAX, is that cost (the minimum tree
\* size itself whenever the cost is below usize::MAX).
C19_SaturatedMinimumTreeSize ==
    Extracted =>
        /\ \A c \in Roots(eg.g) :
              /\ c \in DOMAIN ex.costs
              /\ ex.costs[c].cost = Min(UsizeMax, MinTreeSize(eg.g, c))
        /\ ex.last.outcome \in {"none", "ok"}
        /\ ex.last.outcome = "ok" =>
              /\ ex.last.cost = ex.costs[find(eg.g, ex.last.eclass)].cost
              /\ is_dag(ex.last.expr)
              /\ Min(UsizeMax, LastTreeSize) = ex.last.cost
              /\ LastTreeSize >= MinTreeSize(eg.g, find(eg.g, ex.last.eclass))
              /\ ex.last.cost < UsizeMax =>
                    LastTreeSize = MinTreeSize(eg.g, find(eg.g, ex.last.eclass))

\* find_best of a class whose smallest term has more than usize::MAX nodes:
\* the cost returned is usize::MAX, the term shares subterms.
C19_Witness ==
    /\ ex.last.outcome = "ok"
    /\ MinTreeSize(eg.g, find(eg.g, ex.last.eclass)) > UsizeMax
    /\ ex.last.cost = UsizeMax
    /\ LastTreeSize > UsizeMax
    /\ Len(ex.last.expr) < LastTreeSize

\* The operand classes of the node recorded for a class.
BestOperands(c) ==
    {find(eg.g, Operands(ex.costs[c].node)[k]) : k \in 1..Len(Operands(ex.costs[c].node))}

\* Following the recorded nodes from class c never comes to a class of path
\* or to a class already passed on the way.
RECURSIVE CycleFree(_, _)
CycleFree(c, path) ==
    /\ c \notin path
    /\ c \in DOMAIN ex.costs
    /\ \A d \in BestOperands(c) : CycleFree(d, path \cup {c})

\* The classes that can be reached from themselves through operands of their
\* nodes: the graph has a cycle through them.
RECURSIVE Reaches(_, _, _)
Reaches(c, target, seen) ==
    \E n \in eg.g.nodes[c] : \E k \in 1..Len(Operands(n)) :
        LET d == find(eg.g, Operands(n)[k])
        IN  d = target \/ (d \notin seen /\ Reaches(d, target, seen \cup {d}))

OnCycle(c) == Reaches(c, c, {c})

HasFiniteTerm(g, c) == MinTreeSize(g, c) < NoTerm

\* C21: a class none of whose nodes ever has all operand classes costed (a
\* class defined only circularly) is left without a cost, every class that
\* represents a finite term receives one, and Extractor::new completes: the
\* loop of find_costs ends within one round per class and one more.
C21_UncostedClasses ==
    /\ ex.pc = "find_costs" => ex.passes <= Cardinality(Roots(eg.g))
    /\ Extracted =>
          /\ ex.passes <= Cardinality(Roots(eg.g)) + 1
          /\ \A c \in Roots(eg.g) : c \in DOMAIN ex.costs <=> HasFiniteTerm(eg.g, c)

\* Extractor::new has returned on a graph with a class that is defined only
\* circularly, a class without cost because its only node is over that class,
\* and a class with a finite term and a cost.
C21_Witness ==
    /\ ex.pc = "ready"
    /\ \E c \in Roots(eg.g), d \in Roots(eg.g), e \in Roots(eg.g) :
          /\ c \notin DOMAIN ex.costs
          /\ \E n \in eg.g.nodes[c] : \E k \in 1..Len(Operands(n)) : Operands(n)[k] = c
          /\ d \in DOMAIN ex.costs
          /\ e \notin DOMAIN ex.costs
          /\ \A n \in eg.g.nodes[e] :
                /\ \E k \in 1..Len(Operands(n)) : Operands(n)[k] = c
                /\ \A k \in 1..Len(Operands(n)) : Operands(n)[k] # e

(***************************************************************************)
(* Properties of the functions used on their own.                          *)
(***************************************************************************)
RECURSIVE SeqSum(_)
SeqSum(q) == IF q = <<>> THEN 0 ELSE Head(q) + SeqSum(Tail(q))

RECURSIVE SeqMax(_)
SeqMax(q) == IF q = <<>> THEN 0 ELSE Max(Head(q), SeqMax(Tail(q)))

\* The cost of a node without bound on the number: its size, its depth.
ExactCost(f, child_costs) == IF f = "AstSize" THEN 1 + SeqSum(child_costs) ELSE 1 + SeqMax(child_costs)

CostCall == fcall.f \in {"AstSize", "AstDepth"}

\* C22 as stated: for every node and every combination of child costs both
\* AstSize and AstDepth return the cost saturated at usize::MAX, and never
\* overflow.
C22_BothSaturate ==
    CostCall =>
        /\ fcall.out.outcome = "ok"
        /\ fcall.out.cost = Min(UsizeMax, ExactCost(fcall.f, fcall.args))

\* C22 for AstSize, and for AstDepth with child costs below usize::MAX.
C22_SaturatesBelowMax ==
    (CostCall /\ (fcall.f = "AstDepth" => SeqMax(fcall.args) < UsizeMax)) =>
        /\ fcall.out.outcome = "ok"
        /\ fcall.out.cost = Min(UsizeMax, ExactCost(fcall.f, fcall.args))

\* AstSize of two children whose costs add up to more than usize::MAX.
C22_Witness ==
    /\ fcall.f = "AstSize"
    /\ Len(fcall.args) = 2
    /\ ExactCost("AstSize", fcall.args) > UsizeMax
    /\ fcall.out.cost = UsizeMax

\* AstDepth of a node with a child of cost usize::MAX: the addition of 1
\* overflows and the call panics.
C22_DepthOverflow ==
    /\ fcall.f = "AstDepth"
    /\ SeqMax(fcall.args) = UsizeMax
    /\ fcall.out.outcome = "panic"

\* The term an expression list denotes at a position.
RECURSIVE Term(_, _)
Term(expr, i) ==
    <<expr[i][1], [k \in 1..Len(Operands(expr[i])) |-> Term(expr, Operands(expr[i])[k])]>>

ListCall == fcall.f \in {"compact", "extract", "extract_nodes"}

\* The root of the input of the call: the last node of the list compacted,
\* the node at new_root, the node of the expression's id.
InputRoot == IF fcall.f = "compact" THEN Len(fcall.args[1]) ELSE fcall.args[2]

RootIsLast ==
    /\ fcall.out.nodes # <<>>
    /\ Term(fcall.out.nodes, Len(fcall.out.nodes)) = Term(fcall.args[1], InputRoot)

\* C23 as stated: every list produced by compact, extract (build_recexpr)
\* and extract_nodes has every operand index strictly less than the position
\* of the node holding it, and the root is its last element.
C23_OperandsBeforeRootLast ==
    ListCall =>
        /\ fcall.out.outcome = "ok"
        /\ is_dag(fcall.out.nodes)
        /\ RootIsLast

\* The first position of the input list that holds the term at position i.
FirstAt(expr, i) == CHOOSE j \in 1..i :
    /\ Term(expr, j) = Term(expr, i)
    /\ \A k \in 1..(j - 1) : Term(expr, k) # Term(expr, i)

\* C23 but for the root of compact: the operands are before their node in
\* every list, the root is last after extract and extract_nodes, and after
\* compact exactly when no term of the input appears for the first time
\* after the first appearance of the root's term.
C23_OperandsBefore ==
    ListCall =>
        /\ fcall.out.outcome = "ok"
        /\ is_dag(fcall.out.nodes)
        /\ fcall.f # "compact" => RootIsLast
        /\ fcall.f = "compact" =>
              (RootIsLast <=> \A i \in 1..InputRoot :
                                  FirstAt(fcall.args[1], i) <= FirstAt(fcall.args[1], InputRoot))

\* compact has returned a list whose last node is not the root of the list
\* it was given: the root's node was at an earlier position too, with
\* another node between the two.
C23_CompactLosesRoot ==
    /\ fcall.f = "compact"
    /\ is_dag(fcall.out.nodes)
    /\ ~RootIsLast

\* extract_nodes has returned the nodes of an expression with a shared
\* operand, met on two paths from the root.
C23_Witness ==
    /\ fcall.f = "extract_nodes"
    /\ fcall.out.outcome = "ok"
    /\ Len(fcall.out.nodes) > Len(fcall.args[1])


\* The term of a pattern at position i instantiated under a substitution:
\* a variable is the class bound to it, a node is added after its operands
\* have been instantiated.
RECURSIVE Instantiate(_, _, _, _)
RECURSIVE InstantiateAll(_, _, _, _, _)
Instantiate(g, pat, i, subst) ==
    IF pat[i].var # "" THEN [g |-> g, id |-> subst[pat[i].var]]
    ELSE LET r == InstantiateAll(g, pat, Operands(pat[i].enode), subst, <<>>)
         IN  add(r.g, IF r.ids = <<>> THEN pat[i].enode ELSE ENode(pat[i].enode[1], r.ids))

InstantiateAll(g, pat, ops, subst, ids) ==
    IF ops = <<>> THEN [g |-> g, ids |-> ids]
    ELSE LET r == Instantiate(g, pat, Head(ops), subst)
         IN  InstantiateAll(r.g, pat, Tail(ops), subst, Append(ids, r.id))

\* The matches flattened: one entry for each substitution of each match.
RECURSIVE Flatten(_)
Flatten(mats) ==
    IF mats = <<>> THEN <<>>
    ELSE [k \in 1..Len(Head(mats).substs) |->
             [eclass |-> Head(mats).eclass, subst |-> Head(mats).substs[k]]]
         \o Flatten(Tail(mats))

\* Every entry in turn: instantiate, union with the matched class, and keep
\* the id when the two were in distinct classes before the union.
RECURSIVE InstantiateAndUnion(_, _, _, _)
InstantiateAndUnion(g, pat, entries, added) ==
    IF entries = <<>> THEN [g |-> g, added |-> added]
    ELSE LET r == Instantiate(g, pat, Len(pat), Head(entries).subst)
             distinct == find(r.g, r.id) # find(r.g, Head(entries).eclass)
         IN  InstantiateAndUnion(union(r.g, r.id, Head(entries).eclass).g, pat,
                                 Tail(entries),
                                 IF distinct THEN Append(added, r.id) ELSE added)

ApplyCall == fcall.f = "apply_matches"

\* C24: with explanations disabled, for each substitution of each match
\* apply_matches instantiates the pattern bottom-up, unions the resulting id
\* with the matched class, and returns that id only when the union merged
\* two previously distinct classes.
C24_ApplyMatches ==
    ApplyCall =>
        LET ref == InstantiateAndUnion(fcall.args[2], fcall.args[1], Flatten(fcall.args[3]), <<>>)
        IN  /\ fcall.out.g = ref.g
            /\ fcall.out.added = ref.added

\* apply_matches has returned for a pattern with a node over a node and two
\* substitutions, of which one merged two classes and the other did not.
C24_Witness ==
    /\ ApplyCall
    /\ \E i \in 1..Len(fcall.args[1]) :
          /\ fcall.args[1][i].var = ""
          /\ \E k \in 1..Len(Operands(fcall.args[1][i].enode)) :
                fcall.args[1][Operands(fcall.args[1][i].enode)[k]].var = ""
    /\ Len(Flatten(fcall.args[3])) = 2
    /\ Len(fcall.out.added) = 1
    /\ Len(fcall.out.g.parent) > Len(fcall.args[2].parent)


\* C25: apply_one on a MultiPattern applier panics for every argument,
\* without adding a node or performing a union, and returns no result.
C25_ApplyOnePanics ==
    fcall.f = "apply_one" =>
        /\ fcall.out.outcome = "panic"
        /\ fcall.out.added = <<>>
        /\ fcall.out.g = fcall.args[2]

\* apply_one was called with a substitution under which the pattern's term
\* is not in the graph and not in the class given: applying would add a
\* node and union two classes.
C25_Witness ==
    /\ fcall.f = "apply_one"
    /\ LET r == apply_one_AsPattern(fcall.args[1], fcall.args[2], fcall.args[3],
                                    fcall.args[4], fcall.args[5])
       IN  /\ Len(r.g.parent) > Len(fcall.args[2].parent)
           /\ r.added # <<>>


(***************************************************************************)
(* Properties of the runner's stop reason and history.                     *)
(***************************************************************************)
StopReasonsRecorded ==
    {stop_reason} \cup {iterations[k].stop_reason : k \in 1..Len(iterations)}

\* C26 as stated: when the run stops with NodeLimit, the value carried by
\* the stop reason is the configured enode limit.
C26_NodeLimitCarriesLimit ==
    \A sr \in StopReasonsRecorded : sr.kind = "NodeLimit" => sr.data = node_limit

\* What the code does: a NodeLimit stop reason carries a size of the graph
\* at a check of the limits, a number above the configured limit; at the
\* end of the run it is the size of the graph.
C26_NodeLimitCarriesSize ==
    /\ \A sr \in StopReasonsRecorded : sr.kind = "NodeLimit" => sr.data > node_limit
    /\ (pc = "done" /\ stop_reason.kind = "NodeLimit") => stop_reason.data = total_size(egraph)

\* The run has stopped with NodeLimit after a round that applied a rule.
C26_Witness ==
    /\ pc = "done"
    /\ stop_reason.kind = "NodeLimit"
    /\ Len(iterations) >= 1
    /\ DOMAIN LastIteration.applied # {}


EarlierIterationsHaveNone ==
    \A k \in 1..(Len(iterations) - 1) : iterations[k].stop_reason = None

MergeCall == fcall.f \in {"merge_max", "merge_min", "merge_option"}

\* The merge the utility is to compute: the maximum, the minimum, and for
\* options the Some over the None and the merge of two Somes.
Merged(f, args) ==
    CASE f = "merge_max" -> Max(args[1], args[2])
      [] f = "merge_min" -> Min(args[1], args[2])
      [] OTHER ->
           IF args[1] = <<>> THEN args[2]
           ELSE IF args[2] = <<>> THEN args[1]
           ELSE IF args[3] = "merge_max" THEN <<Max(args[1][1], args[2][1])>>
           ELSE <<Min(args[1][1], args[2][1])>>

\* C28: after merge_max, merge_min and merge_option `to` holds the maximum,
\* the minimum, the Some-preferring merge of the two inputs; the first flag
\* of DidMerge is true whenever `to` was changed by the call, and the second
\* flag is true whenever the incoming value differs from the merged result.
C28_MergeContract ==
    MergeCall =>
        /\ fcall.out.to = Merged(fcall.f, fcall.args)
        /\ fcall.args[1] # fcall.out.to => fcall.out.did[1]
        /\ fcall.args[2] # fcall.out.to => fcall.out.did[2]

\* merge_option of two Somes with merge_min as the closure, the value in
\* `to` being the smaller: `to` is kept and the second flag is set.
C28_Witness ==
    /\ fcall.f = "merge_option"
    /\ fcall.args[3] = "merge_min"
    /\ fcall.args[1] # <<>> /\ fcall.args[2] # <<>>
    /\ fcall.args[1][1] < fcall.args[2][1]
    /\ fcall.out.to = fcall.args[1]
    /\ fcall.out.did = DidMerge(FALSE, TRUE)


\* C29: each round appends exactly one Iteration to the runner's history
\* (the step that ends a round pushes one Iteration and no other step
\* changes the history), and an Iteration recorded by an earlier round is
\* never modified or removed by a later round.
C29_HistoryAppendOnly ==
    [][/\ (pc = "saturation" /\ pc' = "pushed") =>
              /\ Len(iterations') = Len(iterations) + 1
              /\ SubSeq(iterations', 1, Len(iterations)) = iterations
       /\ ~(pc = "saturation" /\ pc' = "pushed") => iterations' = iterations
       /\ (pc = "pushed" /\ pc' = "run_one") => Len(iterations) >= 1]_vars

\* Two rounds have been recorded, the first having applied a rule and the
\* second not the same as the first.
C29_Witness ==
    /\ pc = "pushed"
    /\ Len(iterations) = 2
    /\ DOMAIN iterations[1].applied # {}
    /\ iterations[2] # iterations[1]


\* The round that was just recorded is otherwise saturated: no rule applied
\* and the node and class counts of the round's start are those after the
\* hooks and those after the rebuild.
OtherwiseSaturated ==
    /\ DOMAIN applied = {}
    /\ egraph_nodes = egraph_nodes_after_hooks
    /\ egraph_classes = egraph_classes_after_hooks
    /\ egraph_nodes = total_size(egraph)
    /\ egraph_classes = number_of_classes(egraph)

\* C30 as stated: can_stop is called only in rounds where the runner is
\* otherwise saturated (no rule applied, node and class counts unchanged
\* across the hook phase and across the apply phase); BackoffScheduler's
\* fast-forward of ban times happens only in such rounds.
C30_CanStopOnlyWhenSaturated ==
    (pc \in {"pushed", "done"} /\ cs.called) => OtherwiseSaturated

\* What the code does: can_stop is called in exactly the rounds in which no
\* rule applied, whatever the node and class counts.
C30_CanStopWhenNothingApplied ==
    pc \in {"pushed", "done"} => (cs.called <=> DOMAIN applied = {})

\* A round in which a hook added a node and no rule applied: can_stop was
\* called, found a rule banned and moved the ban times forward.
C30_Witness ==
    /\ pc \in {"pushed", "done"}
    /\ cs.called
    /\ cs.banned # {}
    /\ egraph_nodes # egraph_nodes_after_hooks
    /\ \E n \in DOMAIN ban_log : ban_log[n].ff


(***************************************************************************)
(* Properties of the limit polls, the precedence of stop reasons and the   *)
(* rebuild of a round.                                                     *)
(***************************************************************************)
LimitKinds == {"TimeLimit", "NodeLimit", "IterationLimit"}

\* The step is the search of a rule, the apply of a rule.
SearchedOne == pc = "search" /\ Len(matches') = Len(matches) + 1
AppliedOne == pc = "apply" /\ a' = a + 1

PolledInRound == (pc = "run_one" /\ pc' = "hooks") \/ SearchedOne \/ AppliedOne

\* What a poll gives by the precedence time, nodes, iterations.
PollKind(over, size, n) ==
    IF over THEN "TimeLimit"
    ELSE IF size > node_limit THEN "NodeLimit"
    ELSE IF n >= iter_limit THEN "IterationLimit"
    ELSE "Ok"

\* The saturation condition of the round that was just recorded.
RoundWasSaturated ==
    /\ DOMAIN applied = {}
    /\ cs.called /\ cs.ok
    /\ egraph_nodes = egraph_nodes_after_hooks
    /\ egraph_classes = egraph_classes_after_hooks
    /\ egraph_nodes = total_size(egraph)
    /\ egraph_classes = number_of_classes(egraph)

\* C32: a stop condition detected earlier in a round stays the round's result
\* and is the stop reason recorded and reported, also when the round
\* satisfies the saturation condition; a poll reports the time limit before
\* the node limit and the node limit before the iteration limit.
C32_EarlierStopWins ==
    [][/\ (result.kind # "Ok" /\ pc \in {"hooks", "search", "apply", "saturation"}) =>
              result' = result
       /\ (pc = "saturation" /\ result.kind # "Ok") =>
              iterations'[Len(iterations')].stop_reason = result
       /\ (pc = "pushed" /\ LastIteration.stop_reason # None) =>
              stop_reason' = LastIteration.stop_reason
       /\ PolledInRound =>
              result'.kind = PollKind(elapsed_over', total_size(egraph'), Len(iterations))
       /\ (pc = "pushed" /\ LastIteration.stop_reason = None) =>
              LET k == PollKind(elapsed_over', total_size(egraph), Len(iterations))
              IN  stop_reason'.kind = IF k = "Ok" THEN "None" ELSE k]_vars

\* A first round that found the time and the iteration limit exceeded at
\* its start, changed nothing and met the saturation condition: the time
\* limit is recorded.
C32_Witness ==
    /\ pc = "pushed"
    /\ LastIteration.stop_reason.kind = "TimeLimit"
    /\ Len(iterations) - 1 >= iter_limit
    /\ RoundWasSaturated

\* A poll after an apply with the time and the node limit exceeded.
C32_WitnessTimeOverNodes ==
    /\ pc = "saturation"
    /\ result.kind = "TimeLimit"
    /\ total_size(egraph) > node_limit

\* A poll after the round with the node and the iteration limit exceeded.
C32_WitnessNodesOverIterations ==
    /\ pc = "done"
    /\ LastIteration.stop_reason = None
    /\ stop_reason.kind = "NodeLimit"
    /\ Len(iterations) >= iter_limit

\* The events of the round that change the graph.
ChangesGraph(ev) == ev \in {"hook", "apply"}

\* C33: every round, also one whose result became an error before or during
\* hooks, search or apply, has exactly one rebuild, made after every hook and
\* every apply of the round; no step between the rebuild and the return of
\* run touches the graph, so the graph returned is the rebuilt one.
C33_OneRebuildPerRound ==
    [][/\ (pc = "saturation" /\ pc' = "pushed") =>
              /\ Cardinality(EventsOf("rebuild")) = 1
              /\ \A p \in EventsOf("rebuild"), q \in 1..Len(log) :
                     ChangesGraph(log[q].ev) => q < p
       /\ (pc = "apply" /\ pc' = "saturation") =>
              /\ ~egraph'.dirty
              /\ log' = Append(log, Event("rebuild", 0, "rebuilt"))
       /\ pc \in {"saturation", "pushed", "done"} =>
              /\ egraph' = egraph
              /\ ~egraph.dirty
       /\ (pc = "pushed" /\ pc' = "run_one") => stop_reason' = None]_vars

\* A run returned after a round in which the poll after an apply that added
\* nodes failed: the round has its rebuild.
C33_Witness ==
    /\ pc = "done"
    /\ stop_reason.kind = "NodeLimit"
    /\ LastIteration.stop_reason = stop_reason
    /\ EventsOf("apply") # {}
    /\ Cardinality(EventsOf("apply")) < Len(rules)
    /\ Cardinality(EventsOf("rebuild")) = 1
    /\ ~egraph.dirty

\* A run returned after a round whose first hook failed.
C33_WitnessHookFailed ==
    /\ pc = "done"
    /\ stop_reason.kind = "Other"
    /\ Len(log) = 3
    /\ log[2].ev = "rebuild"


(***************************************************************************)
(* Properties of the choice of a class's best node.                        *)
(***************************************************************************)
\* The costs recorded when the round of find_costs that starts in this state
\* comes to the k-th class.
CostsBeforeClass(k) ==
    find_costs_pass(eg.g, SubSeq(ex.classes, 1, k - 1), ex.costs, FALSE).costs

\* The node's operand classes all have a cost in m.
KnownIn(m, n) ==
    \A j \in 1..Len(Operands(n)) : find(eg.g, Operands(n)[j]) \in DOMAIN m

RECURSIVE CostSumIn(_, _)
CostSumIn(m, ops) ==
    IF ops = <<>> THEN 0
    ELSE m[find(eg.g, Head(ops))].cost + CostSumIn(m, Tail(ops))

NodeCostIn(m, n) == Min(UsizeMax, 1 + CostSumIn(m, Operands(n)))

\* The positions of the nodes of known cost, and the first position of
\* minimal known cost.
KnownPositions(m, ns) == {p \in 1..Len(ns) : KnownIn(m, ns[p])}

FirstCheapest(m, ns) ==
    CHOOSE p \in KnownPositions(m, ns) :
        \A q \in KnownPositions(m, ns) :
            \/ NodeCostIn(m, ns[p]) < NodeCostIn(m, ns[q])
            \/ NodeCostIn(m, ns[p]) = NodeCostIn(m, ns[q]) /\ p <= q

\* What a round leaves recorded for a class, given the costs m it found.
ChoiceFor(m, class) ==
    IF KnownPositions(m, class.nodes) = {}
    THEN IF class.id \in DOMAIN m THEN {m[class.id]} ELSE {}
    ELSE LET p == FirstCheapest(m, class.nodes)
             c == NodeCostIn(m, class.nodes[p])
         IN  IF class.id \notin DOMAIN m \/ c < m[class.id].cost
             THEN {[cost |-> c, node |-> class.nodes[p]]}
             ELSE {m[class.id]}

RecordedFor(m, id) == IF id \in DOMAIN m THEN {m[id]} ELSE {}

\* C34: in a round of find_costs, for every class, the nodes with an operand
\* class without cost are passed over whenever a node of known cost exists,
\* the node recorded is the first in class order among those of minimal
\* known cost, and a choice recorded before stays unless the new cost is
\* strictly lower.
C34_BestNodeChoice ==
    [][(ex.pc = "find_costs" /\ ex' # ex) =>
          /\ \A k \in 1..Len(ex.classes) :
                RecordedFor(ex'.costs, ex.classes[k].id)
                    = ChoiceFor(CostsBeforeClass(k), ex.classes[k])
          /\ \A c \in DOMAIN ex.costs :
                /\ c \in DOMAIN ex'.costs
                /\ ex'.costs[c] # ex.costs[c] => ex'.costs[c].cost < ex.costs[c].cost]_vars

\* Extractor::new has returned.  A class of two nodes of the same cost, the
\* first with an operand in a class that comes later in the scan: in the
\* first round the first node had no cost and the second was recorded, in the
\* second round the first node was the first cheapest and the record stayed.
C34_Witness ==
    /\ ex.pc = "ready"
    /\ \E k, l \in 1..Len(ex.classes) :
          /\ k < l
          /\ Len(ex.classes[k].nodes) = 2
          /\ \E j \in 1..Len(Operands(ex.classes[k].nodes[1])) :
                find(eg.g, Operands(ex.classes[k].nodes[1])[j]) = ex.classes[l].id
          /\ ex.classes[k].id \in DOMAIN ex.costs
          /\ ex.costs[ex.classes[k].id].node = ex.classes[k].nodes[2]
          /\ NodeCostIn(ex.costs, ex.classes[k].nodes[1])
                = NodeCostIn(ex.costs, ex.classes[k].nodes[2])

\* A class of two leaves: the first is recorded.
C34_WitnessFirstOfEqual ==
    /\ ex.pc = "ready"
    /\ \E k \in 1..Len(ex.classes) :
          /\ Len(ex.classes[k].nodes) >= 2
          /\ Operands(ex.classes[k].nodes[1]) = <<>>
          /\ Operands(ex.classes[k].nodes[2]) = <<>>
          /\ ex.costs[ex.classes[k].id].node = ex.classes[k].nodes[1]

\* A round about to replace a recorded choice by a cheaper one.
C34_WitnessReplaced ==
    /\ ex.pc = "find_costs"
    /\ \E c \in DOMAIN ex.costs :
          find_costs_pass(eg.g, ex.classes, ex.costs, FALSE).costs[c].cost < ex.costs[c].cost

(***************************************************************************)
(* Termination of Extractor::new.                                          *)
(***************************************************************************)
\* The class has a node with an operand in the class itself.
SelfLoop(c) ==
    \E n \in eg.g.nodes[c] : \E j \in 1..Len(Operands(n)) : find(eg.g, Operands(n)[j]) = c

\* C35: Extractor::new with AstSize or AstDepth returns on every graph, also
\* one with cycles through its classes; from round to round a recorded cost
\* stays or decreases and no record is dropped, and the loop ends with the
\* first round that records nothing, not before.
C35_ExtractorNewTerminates ==
    /\ [][/\ \A c \in DOMAIN ex.costs :
                c \in DOMAIN ex'.costs /\ ex'.costs[c].cost <= ex.costs[c].cost
          /\ (ex.pc = "find_costs" /\ ex' # ex) =>
                /\ ex'.pc \in {"find_costs", "ready"}
                /\ ex'.pc = "ready" <=> ex'.costs = ex.costs]_vars
    /\ <>(ex.pc = "ready")

\* Extractor::new with AstDepth has returned after three rounds on a graph
\* with a class that is its own operand.
C35_Witness ==
    /\ ex.pc = "ready"
    /\ ex.cost_function = "AstDepth"
    /\ ex.passes >= 3
    /\ \E c \in Roots(eg.g) : SelfLoop(c)

\* The same with AstSize, on a graph with a class that never gets a cost.
C35_WitnessAstSize ==
    /\ ex.pc = "ready"
    /\ ex.cost_function = "AstSize"
    /\ ex.passes >= 2
    /\ \E c \in Roots(eg.g) : SelfLoop(c) /\ c \notin DOMAIN ex.costs


(***************************************************************************)
(* Properties of RecExpr::compact.                                         *)
(***************************************************************************)
CompactCall == fcall.f = "compact"

NoTwoAlike(nodes) == \A i, j \in 1..Len(nodes) : nodes[i] = nodes[j] => i = j

TermsOf(nodes) == {Term(nodes, i) : i \in 1..Len(nodes)}

\* The positions of the list the term at position i is built from.
RECURSIVE ReachableFrom(_, _)
ReachableFrom(expr, i) ==
    {i} \cup UNION {ReachableFrom(expr, Operands(expr[i])[k]) : k \in 1..Len(Operands(expr[i]))}

\* C36 as stated: the list compact returns has no two structurally identical
\* nodes, its last element denotes the term the last element of the input
\* denotes, and compact of it is the list itself.
C36_CompactContract ==
    CompactCall =>
        /\ NoTwoAlike(fcall.out.nodes)
        /\ Term(fcall.out.nodes, Len(fcall.out.nodes))
              = Term(fcall.args[1], Len(fcall.args[1]))
        /\ compact(fcall.out.nodes, 1, <<>>, <<>>) = fcall.out.nodes

\* C36 without the root when the input holds nodes the root is not built
\* from: the list returned is DAG-ordered, has no two identical nodes and no
\* two positions of the same term, denotes exactly the terms of the input,
\* and compact of it is the list itself; its last element denotes the term of
\* the input's last element whenever every node of the input is reachable
\* from that element.
C36_CompactDedupIdempotent ==
    CompactCall =>
        /\ is_dag(fcall.out.nodes)
        /\ NoTwoAlike(fcall.out.nodes)
        /\ \A i, j \in 1..Len(fcall.out.nodes) :
              Term(fcall.out.nodes, i) = Term(fcall.out.nodes, j) => i = j
        /\ TermsOf(fcall.out.nodes) = TermsOf(fcall.args[1])
        /\ compact(fcall.out.nodes, 1, <<>>, <<>>) = fcall.out.nodes
        /\ ReachableFrom(fcall.args[1], Len(fcall.args[1])) = 1..Len(fcall.args[1]) =>
              Term(fcall.out.nodes, Len(fcall.out.nodes))
                  = Term(fcall.args[1], Len(fcall.args[1]))

\* compact of a list of four nodes all reachable from the root, two of them
\* the same leaf: three nodes are returned, the last is the root's term.
C36_Witness ==
    /\ CompactCall
    /\ Len(fcall.args[1]) = 4
    /\ ReachableFrom(fcall.args[1], 4) = 1..4
    /\ Len(fcall.out.nodes) = 3
    /\ Term(fcall.out.nodes, 3) = Term(fcall.args[1], 4)

\* compact of a list whose last node repeats an earlier one: the last
\* element returned is another term.
C36_RootLost ==
    /\ CompactCall
    /\ fcall.args[1] = <<ENode("2", <<>>), ENode("Mul", <<1, 1>>), ENode("2", <<>>)>>
    /\ fcall.out.nodes = <<ENode("2", <<>>), ENode("Mul", <<1, 1>>)>>


(***************************************************************************)
(* Properties of Construct::all and Construct::any.                        *)
(***************************************************************************)
PredCall == fcall.f \in {"all", "any"}

\* The answer that settles the result: false for all, true for any.
Settling == fcall.f = "any"

\* The operands up to the first whose answer settles the result, all of them
\* if there is none.
UpToSettled(answers) ==
    {k \in 1..Len(answers) : \A j \in 1..(k - 1) : answers[j] # Settling}

\* C37 as stated: the predicate is invoked on every operand of the node, in
\* order, also after the result is determined.
C37_NoShortCircuit ==
    PredCall => fcall.out.invoked = [k \in 1..Len(fcall.args[1]) |-> k]

\* What all and any do: the result is the conjunction (disjunction) of the
\* answers, and the predicate is invoked, in operand order, exactly on the
\* operands up to and including the first whose answer settles the result.
C37_InvokedUntilSettled ==
    PredCall =>
        /\ fcall.out.result =
              IF fcall.f = "all" THEN \A k \in 1..Len(fcall.args[1]) : fcall.args[1][k]
              ELSE \E k \in 1..Len(fcall.args[1]) : fcall.args[1][k]
        /\ Len(fcall.out.invoked) = Cardinality(UpToSettled(fcall.args[1]))
        /\ \A p \in 1..Len(fcall.out.invoked) : fcall.out.invoked[p] = p

\* all on three operands with the predicate false on the first: it is
\* invoked once.
C37_Witness ==
    /\ fcall.f = "all"
    /\ fcall.args[1] = <<FALSE, TRUE, TRUE>>
    /\ fcall.out = [result |-> FALSE, invoked |-> <<1>>]

\* any on three operands with the predicate true on the second: it is not
\* invoked on the third.
C37_WitnessAny ==
    /\ fcall.f = "any"
    /\ fcall.args[1] = <<FALSE, TRUE, FALSE>>
    /\ fcall.out = [result |-> TRUE, invoked |-> <<1, 2>>]


(***************************************************************************)
(* Properties of Iteration.applied.                                        *)
(***************************************************************************)
PhaseCall == fcall.f = "apply_phase"

\* The substitutions of a match list, each as a match of its own.
RECURSIVE OneByOne(_)
OneByOne(mats) ==
    IF mats = <<>> THEN <<>>
    ELSE [k \in 1..Len(Head(mats).substs) |->
             [eclass |-> Head(mats).eclass, substs |-> <<Head(mats).substs[k]>>]]
         \o OneByOne(Tail(mats))

\* The applications of a rule made one by one from graph g: the graph they
\* leave and the number of them that changed the graph they found.
RECURSIVE Replay(_, _, _, _)
Replay(rw, g, ones, changed) ==
    IF ones = <<>> THEN [g |-> g, changed |-> changed]
    ELSE LET r == Rewrite_apply(rw, g, <<Head(ones)>>)
         IN  Replay(rw, r.g, Tail(ones), IF r.g # g THEN changed + 1 ELSE changed)

\* For every rule of the list, in order: the number of its applications
\* (made), the number of those that changed the graph (changed), and counted:
\* changed for a Pattern, made for a MultiPattern.
RECURSIVE Applications(_, _, _)
Applications(rws, mss, g) ==
    IF rws = <<>> THEN <<>>
    ELSE LET r == Replay(Head(rws), g, OneByOne(Head(mss)), 0)
         IN  <<[name |-> Head(rws).name, kind |-> Head(rws).kind,
                made |-> Len(OneByOne(Head(mss))), changed |-> r.changed,
                counted |-> IF Head(rws).kind = "Pattern" THEN r.changed
                            ELSE Len(OneByOne(Head(mss)))]>>
             \o Applications(Tail(rws), Tail(mss), r.g)

RECURSIVE SumOver(_, _, _)
SumOver(apps, name, field) ==
    IF apps = <<>> THEN 0
    ELSE (IF Head(apps).name = name THEN Head(apps)[field] ELSE 0)
         + SumOver(Tail(apps), name, field)

\* The map with an entry for every name whose sum is positive.
AppliedMap(apps, field) ==
    [n \in {m \in {apps[k].name : k \in 1..Len(apps)} : SumOver(apps, m, field) > 0} |->
        SumOver(apps, n, field)]

SameMap(f, g) == DOMAIN f = DOMAIN g /\ \A x \in DOMAIN f : f[x] = g[x]

CallApplications == Applications(fcall.args[1], fcall.args[2], fcall.args[3])

\* C38 as stated: applied maps every rule name to the number of the round's
\* applications that changed the graph, summed over the rules of the name,
\* and has no entry for a name without such an application, for Pattern and
\* for MultiPattern appliers.
C38_AppliedCountsChanges ==
    PhaseCall => SameMap(fcall.out.applied, AppliedMap(CallApplications, "changed"))

\* What applied holds: for a Pattern rule the applications that changed the
\* graph, for a MultiPattern rule all its applications, changing or not,
\* summed over the rules of a name; no entry for a name whose sum is 0.
C38_AppliedCountsReturnedIds ==
    PhaseCall => SameMap(fcall.out.applied, AppliedMap(CallApplications, "counted"))

\* Two Pattern rules of one name, each with one application that changed
\* the graph: one entry, 2.
C38_Witness ==
    /\ PhaseCall
    /\ Len(fcall.args[1]) = 2
    /\ \A k \in 1..2 : fcall.args[1][k].kind = "Pattern" /\ fcall.args[1][k].name = 1
    /\ fcall.out.applied = (1 :> 2)
    /\ \A k \in 1..2 : CallApplications[k].changed = 1

\* A MultiPattern rule whose two applications leave the graph as it was:
\* applied holds 2 for it.
C38_MultiPatternCounted ==
    /\ PhaseCall
    /\ Len(fcall.args[1]) = 1
    /\ fcall.args[1][1].kind = "MultiPattern"
    /\ fcall.out.g = fcall.args[3]
    /\ fcall.out.applied = (1 :> 2)

\* A Pattern rule whose applications leave the graph as it was: no entry.
C38_PatternNoEntry ==
    /\ PhaseCall
    /\ Len(fcall.args[1]) = 1
    /\ fcall.args[1][1].kind = "Pattern"
    /\ Len(OneByOne(fcall.args[2][1])) = 2
    /\ fcall.out.g = fcall.args[3]
    /\ DOMAIN fcall.out.applied = {}


(***************************************************************************)
(* Properties of ExprContext::insert.                                      *)
(***************************************************************************)
InsertCall == pc = "context" /\ fcall.f = "insert"

Inserted == fcall.args[1]

IsOp(n) == Operands(n) # <<>>

Swapped(n) == IF IsOp(n) THEN ENode(n[1], <<Operands(n)[2], Operands(n)[1]>>) ELSE n

\* The node was handed to an earlier insert, which returned id.
SeenAs(n, id) == n \in DOMAIN fcall.out.seen /\ fcall.out.seen[n] = id

SeenBefore(n) == n \in DOMAIN fcall.out.seen

\* An insert returns the id every earlier insert of the node returned, and
\* for a sum or product the id of the node with the operands swapped.
SameIdAsBefore ==
    /\ SeenBefore(Inserted) => SeenAs(Inserted, fcall.out.id)
    /\ (Inserted[1] \in {"Add", "Mul"} /\ SeenBefore(Swapped(Inserted))) =>
           SeenAs(Swapped(Inserted), fcall.out.id)

\* A power does not get the id of the power with the operands swapped.
PowNotCommutative ==
    (Inserted[1] = "Pow" /\ Swapped(Inserted) # Inserted) =>
        ~SeenAs(Swapped(Inserted), fcall.out.id)

\* C39 as stated: after any sequence of inserts, insert returns an id, the
\* one it returned before for the same node, for a sum or product also the
\* one of the node with its operands in the other order, and for a power not
\* the one of the power with its operands in the other order.
C39_HashConsing ==
    InsertCall =>
        /\ fcall.out.outcome = "ok"
        /\ SameIdAsBefore
        /\ PowNotCommutative

\* What holds: whenever insert returns, it returns the id it returned before
\* for the node and for a sum or product with the operands swapped; while the
\* table holds at most 2^IdBits nodes insert does return, the id is the
\* position of the sorted node in the table, and no other node has the id.
C39_HashConsingWithinIdRange ==
    InsertCall =>
        /\ fcall.out.outcome = "ok" => SameIdAsBefore
        /\ Len(fcall.out.nodes) <= IdMax + 1 =>
              /\ fcall.out.outcome = "ok"
              /\ PowNotCommutative
              /\ fcall.out.nodes[fcall.out.id + 1] = sort_ids(Inserted)
              /\ \A m \in DOMAIN fcall.out.seen :
                    fcall.out.seen[m] = fcall.out.id => sort_ids(m) = sort_ids(Inserted)

\* Within the id range: Add(1, 0) gets the id Add(0, 1) got, in a table
\* that also holds a power.
C39_Witness ==
    /\ InsertCall
    /\ Len(fcall.out.nodes) = IdMax + 1
    /\ Inserted = ENode("Add", <<1, 0>>)
    /\ SeenAs(ENode("Add", <<0, 1>>), fcall.out.id)
    /\ SeenBefore(ENode("Pow", <<0, 1>>))

\* Within the id range: Pow(1, 0) gets another id than Pow(0, 1) got.
C39_WitnessPow ==
    /\ InsertCall
    /\ Len(fcall.out.nodes) = IdMax + 1
    /\ fcall.out.outcome = "ok"
    /\ Inserted = ENode("Pow", <<1, 0>>)
    /\ SeenBefore(ENode("Pow", <<0, 1>>))
    /\ ~SeenAs(ENode("Pow", <<0, 1>>), fcall.out.id)

\* Beyond the id range, truncating build: Pow(1, 0) is given the id of
\* Pow(0, 1).
C39_PowAliased ==
    /\ InsertCall
    /\ fcall.out.outcome = "ok"
    /\ Inserted = ENode("Pow", <<1, 0>>)
    /\ SeenAs(ENode("Pow", <<0, 1>>), fcall.out.id)

\* Beyond the id range, build with debug assertions: insert panics.
C39_InsertPanics ==
    /\ InsertCall
    /\ fcall.out.outcome = "panic"
    /\ Len(fcall.out.nodes) = IdMax + 2


====
